---------------------------- MODULE Spec2Model ----------------------------
(***************************************************************************)
(* Pastry-shop admin dashboard: the Billing page and the invoice form, the *)
(* recipe cost roll-up and the Recipe Management page, Stock Management,   *)
(* the Customers page's event dates, the AuthProvider with fetchWithAuth,  *)
(* and the Dashboard's fetchData.                                          *)
(*                                                                         *)
(* Numbers.  The inputs of the arithmetic (quantity, unit price, discount  *)
(* %, gst %, amount paid, cost per unit) are whole numbers.  Every derived *)
(* money amount is held exactly, in units of 1/Scale of a rupee: with      *)
(* whole inputs q*p*(d/100) has two decimals and the gst on it four, so    *)
(* Scale = 10000 makes all of the code's products and percentages exact.   *)
(* The model is therefore the code's arithmetic over the reals; IEEE-754   *)
(* rounding of the doubles is not modelled.                                *)
(*                                                                         *)
(* JavaScript values that are not numbers are encoded as negative          *)
(* integers (Blank, Undef, NaN); the form never stores a negative number   *)
(* in a line field (InvoiceForm.tsx:165), so the encodings cannot collide  *)
(* with data.                                                              *)
(***************************************************************************)
EXTENDS Integers, Sequences, FiniteSets, TLC

\* ------------------------------------------------------------------ bounds
MaxItems == 2          \* lines per invoice the user adds
MaxLines == 1          \* lines per form on the pages with a backend
MaxInvoices == 1       \* invoices the backend holds
MaxIngredients == 2    \* ingredients per recipe the user adds
MaxLen == 2            \* length of the item / ingredient lists drawn as inputs
MaxRecipes == 1        \* recipes the backend holds
MaxQuantity == 9       \* largest stock quantity a purchase may reach
MaxYear == 2028        \* last year the clock runs through
MaxFetches == 2        \* runs of the Dashboard's fetchData
MaxStored == 11        \* invoices the backend holds under the paginated list

\* --------------------------------------------------------- value encodings
Scale == 10000
Blank == -1            \* the empty string '' of a cleared numeric input
Undef == -2            \* undefined: the field is missing from the object
NaN == -1000000007     \* the result of arithmetic on undefined

\* x || 0 on a numeric field
OrZero(x) == IF x \in {Blank, Undef, NaN, 0} THEN 0 ELSE x

\* x ?? d
Nullish(x, d) == IF x = Undef THEN d ELSE x

\* ToNumber, applied by * / - and >= to their operands: '' is 0, undefined is NaN
ToNumber(x) == IF x = Blank THEN 0 ELSE IF x = Undef THEN NaN ELSE x

JsMul(a, b) == IF ToNumber(a) = NaN \/ ToNumber(b) = NaN THEN NaN ELSE ToNumber(a) * ToNumber(b)
JsAdd(a, b) == IF a = NaN \/ b = NaN THEN NaN ELSE a + b
JsSub(a, b) == IF a = NaN \/ b = NaN THEN NaN ELSE a - b

\* x * (p / 100): exact, every x it is applied to is a multiple of 100
Pct(x, p) == (x * p) \div 100
JsPct(x, p) == IF x = NaN \/ ToNumber(p) = NaN THEN NaN ELSE Pct(x, ToNumber(p))

\* exact quotients, kept in lowest terms; den = 0 is a division by zero
\* (Infinity or NaN in JavaScript)
Abs(x) == IF x < 0 THEN -x ELSE x
RECURSIVE Gcd(_, _)
Gcd(a, b) == IF b = 0 THEN a ELSE Gcd(b, a % b)
Ratio(n, d) ==
    IF d = 0 THEN [num |-> n, den |-> 0]
    ELSE LET g == Gcd(Abs(n), Abs(d))
             s == IF d < 0 THEN -1 ELSE 1
         IN  [num |-> s * (n \div g), den |-> s * (d \div g)]
JsDiv(a, b) == Ratio(a, b)
Times100(r) == Ratio(r.num * 100, r.den)
Zero == [num |-> 0, den |-> 1]


\* ------------------------------------------------------------- data model
PaymentStatuses == {"Paid", "Pending", "Overdue"}

Customers == << [id |-> "c1", name |-> "Asha", phone |-> "98"] >>

\* the finished products the stock endpoint returns; sellingPrice, gst and
\* discount may be missing from a stock document
CatalogueA ==
    << [_id |-> "p1", name |-> "Croissant", sellingPrice |-> 100, costPerUnit |-> 40,
        gst |-> Undef, discount |-> Undef],
       [_id |-> "p2", name |-> "Eclair", sellingPrice |-> Undef, costPerUnit |-> 40,
        gst |-> 5, discount |-> 10] >>
CatalogueB ==
    << [_id |-> "p1", name |-> "Croissant", sellingPrice |-> 120, costPerUnit |-> 50,
        gst |-> Undef, discount |-> Undef],
       [_id |-> "p2", name |-> "Eclair", sellingPrice |-> Undef, costPerUnit |-> 60,
        gst |-> 5, discount |-> 10] >>
Catalogues == {CatalogueA, CatalogueB}

\* id and _id are "" where the object has no such field
newInvoiceTemplate ==
    [id |-> "", _id |-> "", customerId |-> "", customerName |-> "", customerPhone |-> "",
     date |-> [year |-> 2026, month |-> 1, day |-> 5],
     items |-> << >>, subtotal |-> 0, discount |-> Zero, gst |-> Zero, total |-> 0,
     paymentStatus |-> "Pending", orderType |-> "Takeaway", amountPaid |-> 0]

\* editingInvoice = null
NullInvoice == [newInvoiceTemplate EXCEPT !.id = "null"]

\* the page size of the Billing list and of the stock list
PAGE_SIZE == 10

InvoiceIdAt(n) ==
    <<"inv1", "inv2", "inv3", "inv4", "inv5", "inv6", "inv7", "inv8", "inv9", "inv10",
      "inv11", "inv12", "inv13">>[n]

\* what the user types into the numeric inputs
QuantityInputs == {Blank, 0, -5}
PriceInputs == {50}
DiscountInputs == {100}
GstInputs == {12}
AmountInputs == {Blank, 100, 200}
NameInputs == {"", "Ravi"}
PhoneInputs == {"", "77"}
FieldInputs(field) ==
    CASE field = "quantity" -> QuantityInputs
      [] field = "price" -> PriceInputs
      [] field = "discount" -> DiscountInputs
      [] field = "gst" -> GstInputs
NumericFields == {"quantity", "price", "discount", "gst"}

VARIABLES
    store,            \* backend: the invoice collection
    invoices,         \* Billing: the fetched list
    products,         \* Billing: availableProducts, the form's products prop
    isModalOpen, modalMode, editingInvoice,
    formData,         \* InvoiceForm state (while mounted)
    customerDetails, gstType,
    alert,            \* the blocking alert on screen, "" when none
    savePc,           \* handleSaveInvoice: "idle", "saving", "refetching"
    saveReq,          \* the save request in flight (its JSON body)
    page,             \* Billing: the page of the list on screen
    billingTotal,     \* Billing: total, the number of invoices the backend reports
    billingRequest,   \* Billing: the parameters of the list request sent last
    searchTerm,       \* Billing: the text of the search box, as its characters
    invoiceStatusFilter, \* Billing: statusFilter, a PaymentStatus or "all"
    typeFilter,       \* Billing: an OrderType or "all"
    recipes,          \* recipe pages: the fetched recipe list
    stockItems,       \* recipe pages: the fetched stock catalogue
    selectedRecipe,   \* recipe pages: the recipe shown and handed to the form
    recipeFormData,   \* RecipeForm state
    ingredientRef,    \* RecipeForm: which of selectedRecipe's ingredient objects
                      \* each form ingredient is (0: an object of its own)
    recipeStore,      \* the recipes the backend holds
    isFormModalOpen,  \* RecipeManagement: the form modal is open
    recipeAlert,      \* RecipeForm: its blocking alert is on screen
    recipePc,         \* RecipeManagement: "fetching" (fetchAll of the mount),
                      \* "idle", "saving" (handleSaveRecipe awaits the
                      \* response), "refetching" (its fetchAll)
    recipeReq,        \* the recipe save request in flight (its JSON body)
    stockStore,       \* the stock items the backend holds
    stock,            \* StockManagement: the fetched stock list
    selectedItem,     \* StockManagement: the item handed to a modal form
    isAdjustModalOpen,\* StockManagement: the Adjust Stock modal is open
    stockPc,          \* StockManagement: "fetching" (fetchStock of the mount),
                      \* "idle", "adjusting" / "deleting" (awaits the
                      \* response), "refetching" (fetchAndSetStock)
    stockReq,         \* the purchase, save or delete request in flight
    adjustForm,       \* AdjustStockForm state: the two inputs as typed
    isStockFormModalOpen, \* StockManagement: the StockForm modal is open
    stockForm,        \* StockForm state: formData
    stockLoading,     \* Stock Management: the list is being fetched
    statusFilter,     \* Stock Management: the status filter of the list
    stockTotal,       \* Stock Management: the number of items the query matches
    stockFetches,     \* the effect's list requests in flight, oldest first
    lastRequest,      \* the list request sent last
    clock,            \* what "new Date()" returns: the local calendar day and
                      \* the time of day (ms: 0 is midnight, 1 is later)
    customers,        \* Customers page: the fetched customer list
    currentMonthEvents, \* Customers page: the memoized events of the month
    dashboardCustomers, \* Dashboard: the customer list it holds
    upcomingBirthdays,  \* Dashboard: the memoized count of its card
    localStorage,     \* the browser's localStorage: token and userEmail
    token,            \* AuthProvider state
    userEmail,        \* AuthProvider state
    href,             \* the route on screen
    lastResponse,     \* what the caller of the last API request got back
    dashboard,        \* Dashboard state: the four collections and loading
    dashResponses,    \* Dashboard: how each request of the running fetchData
                      \* has been answered
    dashPc,           \* Dashboard: where fetchData stands: "idle", "all"
                      \* (awaits Promise.all), or the collection whose
                      \* json() it awaits
    dashRun           \* Dashboard: how many times fetchData has started

pagingVars == <<page, billingTotal, billingRequest>>
filterVars == <<searchTerm, invoiceStatusFilter, typeFilter>>
billingVars == <<store, invoices, products, isModalOpen, modalMode, editingInvoice,
                 formData, customerDetails, gstType, alert, savePc, saveReq, pagingVars,
                 filterVars>>
recipeVars == <<recipes, stockItems, selectedRecipe, recipeFormData, ingredientRef>>

recipeManagementVars == <<recipeStore, isFormModalOpen, recipeAlert, recipePc, recipeReq>>

\* what neither the invoice pages nor the recipe form and calculator touch
stockListVars == <<statusFilter, stockTotal, stockFetches>>
stockVars == <<stockStore, stock, selectedItem, isAdjustModalOpen, stockPc, stockReq,
              adjustForm, isStockFormModalOpen, stockForm, stockLoading, lastRequest, stockListVars>>
customerVars == <<clock, customers, currentMonthEvents, dashboardCustomers, upcomingBirthdays>>
authVars == <<localStorage, token, userEmail, href, lastResponse>>
dashboardVars == <<dashboard, dashResponses, dashPc, dashRun>>
otherVars == <<recipeManagementVars, stockVars, customerVars, authVars, dashboardVars>>

\* what the Billing page's handlers and the invoice form never touch (the
\* filters of the list are set by their own inputs alone)
nonBillingPageVars == <<filterVars, recipeVars, otherVars>>
\* what the invoice form and the handlers of its modal never touch
nonBillingVars == <<pagingVars, nonBillingPageVars>>

\* what the Recipe Management page never touches
nonManagementVars == <<billingVars, stockVars, customerVars, authVars, dashboardVars>>

\* what the Stock Management page never touches
nonStockPageVars == <<billingVars, recipeVars, recipeManagementVars, customerVars, authVars,
                      dashboardVars>>
\* what the handlers of its modals and of its delete button never touch
nonStockVars == <<stockLoading, lastRequest, stockListVars, nonStockPageVars>>

\* what the Customers page never touches
nonCustomerVars == <<billingVars, recipeVars, recipeManagementVars, stockVars, authVars, dashboardVars>>

\* what the Dashboard never touches
nonDashboardVars == <<billingVars, recipeVars, recipeManagementVars, stockVars,
                      customerVars, authVars>>

\* what the AuthProvider and fetchWithAuth never touch
nonAuthVars == <<billingVars, recipeVars, recipeManagementVars, stockVars, customerVars, dashboardVars>>

\* what the recipe form and the calculator never touch
nonRecipeVars == <<billingVars, otherVars>>

vars == <<billingVars, recipeVars, otherVars>>

pageVars == <<store, invoices, products, isModalOpen, modalMode, editingInvoice,
              savePc, saveReq>>

readOnly == modalMode = "view"
sending == savePc # "idle"

\* --------------------------------------------------- InvoiceForm: totals
\* variant: gst charged on the line's gross amount
RECURSIVE TotalsLoop_GstOnGross(_, _, _)
TotalsLoop_GstOnGross(items, i, acc) ==
    IF i > Len(items) THEN acc
    ELSE LET item == items[i]
             itemSubtotal == OrZero(item.quantity) * OrZero(item.price) * Scale
         IN  TotalsLoop_GstOnGross(items, i + 1,
                 [subtotal |-> acc.subtotal + itemSubtotal,
                  discountAmount |-> acc.discountAmount + Pct(itemSubtotal, OrZero(item.discount)),
                  gstAmount |-> acc.gstAmount + Pct(itemSubtotal, OrZero(item.gst))])

RECURSIVE TotalsLoop(_, _, _)
TotalsLoop(items, i, acc) ==
    IF i > Len(items) THEN acc
    ELSE LET item == items[i]
             itemSubtotal == OrZero(item.quantity) * OrZero(item.price) * Scale
             afterDiscount == itemSubtotal - Pct(itemSubtotal, OrZero(item.discount))
         IN  TotalsLoop(items, i + 1,
                 [subtotal |-> acc.subtotal + itemSubtotal,
                  discountAmount |-> acc.discountAmount + Pct(itemSubtotal, OrZero(item.discount)),
                  gstAmount |-> acc.gstAmount + Pct(afterDiscount, OrZero(item.gst))])

totals(fd) ==
    LET acc == TotalsLoop(fd.items, 1, [subtotal |-> 0, discountAmount |-> 0, gstAmount |-> 0])
        grandTotal == acc.subtotal - acc.discountAmount + acc.gstAmount
        balanceDue == grandTotal - OrZero(fd.amountPaid) * Scale
    IN  [subtotal |-> acc.subtotal, discountAmount |-> acc.discountAmount,
         gstAmount |-> acc.gstAmount, grandTotal |-> grandTotal, balanceDue |-> balanceDue]

\* variant: an exactly settled invoice is still shown as owing
balanceDueClass_RedAtZero(fd) == IF totals(fd).balanceDue >= 0 THEN "text-red-500" ELSE ""

\* the class of the Balance Due figure
balanceDueClass(fd) == IF totals(fd).balanceDue > 0 THEN "text-red-500" ELSE ""

\* ------------------------------------- Billing: calculateInvoiceTotals
ItemTotal(item) == JsMul(JsMul(item.price, item.quantity), Scale)

RECURSIVE ReduceSubtotal(_)
ReduceSubtotal(items) ==
    IF items = << >> THEN 0
    ELSE JsAdd(ReduceSubtotal(SubSeq(items, 1, Len(items) - 1)), ItemTotal(items[Len(items)]))

RECURSIVE ReduceDiscount(_)
ReduceDiscount(items) ==
    IF items = << >> THEN 0
    ELSE LET item == items[Len(items)]
         IN  JsAdd(ReduceDiscount(SubSeq(items, 1, Len(items) - 1)),
                   JsPct(ItemTotal(item), item.discount))

RECURSIVE ReduceGst(_)
ReduceGst(items) ==
    IF items = << >> THEN 0
    ELSE LET item == items[Len(items)]
             itemTotal == ItemTotal(item)
             itemDiscount == JsPct(itemTotal, item.discount)
         IN  JsAdd(ReduceGst(SubSeq(items, 1, Len(items) - 1)),
                   JsPct(JsSub(itemTotal, itemDiscount), item.gst))

calculateInvoiceTotals(invoice) ==
    LET subtotal == ReduceSubtotal(invoice.items)
        discountAmount == ReduceDiscount(invoice.items)
        gstAmount == ReduceGst(invoice.items)
    IN  [subtotal |-> subtotal,
         total |-> JsAdd(JsSub(subtotal, discountAmount), gstAmount)]


\* ------------------------------------------------- Billing: InvoicePrint
\* the Discount and GST figures of the print view
InvoicePrint(invoice) ==
    [discountAmount |-> ReduceDiscount(invoice.items),
     gstAmount |-> ReduceGst(invoice.items)]

\* ------------------------------------------------ InvoiceForm: mounting
\* useState initialisers, run when the modal mounts the form
baseInvoice(inv) == IF inv = NullInvoice THEN newInvoiceTemplate ELSE inv
\* variant: the mount applies the default GST rate to the loaded lines
InitialFormData_ResetGst(inv) ==
    [baseInvoice(inv) EXCEPT
        !.amountPaid = Nullish(baseInvoice(inv).amountPaid, Blank),
        !.items = [i \in 1..Len(@) |-> [@[i] EXCEPT !.gst = 18]]]

InitialFormData(inv) ==
    [baseInvoice(inv) EXCEPT !.amountPaid = Nullish(baseInvoice(inv).amountPaid, Blank)]
InitialCustomerDetails == [phone |-> ""]

Mount(inv) ==
    /\ formData' = InitialFormData(inv)
    /\ customerDetails' = InitialCustomerDetails
    /\ gstType' = "with_gst"

\* the closed modal renders no form
Unmount == Mount(NullInvoice)

\* ------------------------------------------------ InvoiceForm: handlers
Editable == isModalOpen /\ ~readOnly /\ alert = ""

find(catalogue, productId) ==
    LET hits == {i \in 1..Len(catalogue) : catalogue[i]._id = productId}
    IN  IF hits = {} THEN 0 ELSE CHOOSE i \in hits : \A j \in hits : i <= j

\* the options of line index's product dropdown
ProductOptions(index) ==
    {products[k]._id : k \in
        {k \in 1..Len(products) :
            \/ formData.items[index].productId = ""
            \/ ~(\E idx \in 1..Len(formData.items) :
                    idx # index /\ formData.items[idx].productId = products[k]._id)
            \/ formData.items[index].productId = products[k]._id}}

SelectedProductItem(product) ==
    [productId |-> product._id,
     productName |-> product.name,
     quantity |-> 1,
     price |-> IF OrZero(product.sellingPrice) # 0 THEN product.sellingPrice
               ELSE IF OrZero(product.costPerUnit) # 0 THEN (product.costPerUnit * 3) \div 2
               ELSE 0,
     gst |-> IF gstType = "with_gst"
             THEN (IF product.gst # Undef THEN product.gst ELSE 18)
             ELSE 0,
     discount |-> IF product.discount # Undef THEN product.discount ELSE 0]

ChangedItem(item, field, value) ==
    IF field = "productId"
    THEN IF find(products, value) # 0
         THEN SelectedProductItem(products[find(products, value)])
         ELSE item
    ELSE IF value = Blank THEN [item EXCEPT ![field] = Blank]
         ELSE IF value >= 0 THEN [item EXCEPT ![field] = value]
         ELSE item

handleItemChange(index, field, value) ==
    /\ Editable
    /\ index \in 1..Len(formData.items)
    /\ formData' = [formData EXCEPT !.items[index] = ChangedItem(@, field, value)]
    /\ UNCHANGED <<pageVars, customerDetails, gstType, alert>>
    /\ UNCHANGED nonBillingVars

NewItem == [productId |-> "", productName |-> "", quantity |-> Blank, price |-> Blank,
            discount |-> Blank, gst |-> IF gstType = "with_gst" THEN 18 ELSE 0]

addItem ==
    /\ Editable
    /\ formData' = [formData EXCEPT !.items = Append(@, NewItem)]
    /\ UNCHANGED <<pageVars, customerDetails, gstType, alert>>
    /\ UNCHANGED nonBillingVars

RemoveAt(seq, index) == [i \in 1..(Len(seq) - 1) |-> IF i < index THEN seq[i] ELSE seq[i + 1]]

removeItem(index) ==
    /\ Editable
    /\ index \in 1..Len(formData.items)
    /\ formData' = [formData EXCEPT !.items = RemoveAt(@, index)]
    /\ UNCHANGED <<pageVars, customerDetails, gstType, alert>>
    /\ UNCHANGED nonBillingVars

handleGstTypeChange(newGstType) ==
    /\ Editable
    /\ gstType' = newGstType
    /\ formData' = [formData EXCEPT !.items =
           [i \in 1..Len(@) |-> [@[i] EXCEPT !.gst = IF newGstType = "without_gst" THEN 0 ELSE 18]]]
    /\ UNCHANGED <<pageVars, customerDetails, alert>>
    /\ UNCHANGED nonBillingVars

\* the amountPaid input
handleInputChange(value) ==
    /\ Editable
    /\ formData' = [formData EXCEPT !.amountPaid = value]
    /\ UNCHANGED <<pageVars, customerDetails, gstType, alert>>
    /\ UNCHANGED nonBillingVars

handleCustomerSelect(customer) ==
    /\ Editable
    /\ formData' = [formData EXCEPT !.customerId = customer.id, !.customerName = customer.name]
    /\ customerDetails' = [phone |-> customer.phone]
    /\ UNCHANGED <<pageVars, gstType, alert>>
    /\ UNCHANGED nonBillingVars

\* typing in the search box anything but the current selection's label
handleCustomerSearchChange ==
    /\ Editable
    /\ formData.customerId # ""
    /\ formData' = [formData EXCEPT !.customerId = "", !.customerName = ""]
    /\ customerDetails' = [phone |-> ""]
    /\ UNCHANGED <<pageVars, gstType, alert>>
    /\ UNCHANGED nonBillingVars

\* the Customer Name and Phone Number inputs of a walk-in customer
handleCustomerNameChange(value) ==
    /\ Editable
    /\ formData.customerId = ""
    /\ formData' = [formData EXCEPT !.customerName = value]
    /\ UNCHANGED <<pageVars, customerDetails, gstType, alert>>
    /\ UNCHANGED nonBillingVars

handleCustomerPhoneChange(value) ==
    /\ Editable
    /\ formData.customerId = ""
    /\ customerDetails' = [customerDetails EXCEPT !.phone = value]
    /\ UNCHANGED <<pageVars, formData, gstType, alert>>
    /\ UNCHANGED nonBillingVars


\* ------------------------------------------------ InvoiceForm: handleSubmit
CustomerMissing(fd, cd) == fd.customerId = "" /\ (fd.customerName = "" \/ cd.phone = "")
\* variant: only the first line's product is looked at
ItemsInvalid_FirstOnly(fd) == Len(fd.items) = 0 \/ fd.items[1].productId = ""

ItemsInvalid(fd) == Len(fd.items) = 0 \/ \E i \in 1..Len(fd.items) : fd.items[i].productId = ""

\* variant: without the grandTotal > 0 test
PaymentStatusOf_NoZeroGuard(fd) ==
    IF ToNumber(Nullish(fd.amountPaid, 0)) * Scale >= totals(fd).grandTotal
    THEN "Paid" ELSE "Pending"

PaymentStatusOf(fd) ==
    IF ToNumber(Nullish(fd.amountPaid, 0)) * Scale >= totals(fd).grandTotal
       /\ totals(fd).grandTotal > 0
    THEN "Paid" ELSE "Pending"

EffectiveDiscount(t) ==
    IF t.subtotal > 0 THEN Times100(JsDiv(t.discountAmount, t.subtotal)) ELSE Zero
\* variant: guarded by the subtotal instead of the after-discount amount
EffectiveGst_GuardSubtotal(t) ==
    IF t.subtotal > 0
    THEN Times100(JsDiv(t.gstAmount, t.subtotal - t.discountAmount)) ELSE Zero

EffectiveGst(t) ==
    IF t.subtotal - t.discountAmount > 0
    THEN Times100(JsDiv(t.gstAmount, t.subtotal - t.discountAmount)) ELSE Zero

finalInvoiceData(fd, cd) ==
    LET t == totals(fd)
        data == [fd EXCEPT !.subtotal = t.subtotal,
                           !.total = t.grandTotal,
                           !.discount = EffectiveDiscount(t),
                           !.gst = EffectiveGst(t),
                           !.paymentStatus = PaymentStatusOf(fd)]
    IN  IF fd.customerId = "" THEN [data EXCEPT !.customerPhone = cd.phone] ELSE data

\* Billing.handleSaveInvoice up to the request: the JSON body it sends
payload(savedInvoiceData) ==
    [savedInvoiceData EXCEPT
        !.subtotal = calculateInvoiceTotals(savedInvoiceData).subtotal,
        !.total = calculateInvoiceTotals(savedInvoiceData).total,
        !.amountPaid = OrZero(savedInvoiceData.amountPaid)]

\* the submit event: the Save button is rendered on an editable form and is
\* disabled while a save is in flight
handleSubmit ==
    /\ Editable
    /\ ~sending
    /\ IF CustomerMissing(formData, customerDetails)
       THEN /\ alert' = "customer"
            /\ UNCHANGED <<savePc, saveReq>>
       ELSE IF ItemsInvalid(formData)
       THEN /\ alert' = "items"
            /\ UNCHANGED <<savePc, saveReq>>
       ELSE /\ saveReq' = payload(finalInvoiceData(formData, customerDetails))
            /\ savePc' = "saving"
            /\ UNCHANGED alert
    /\ UNCHANGED <<store, invoices, products, isModalOpen, modalMode, editingInvoice,
                   formData, customerDetails, gstType>>
    /\ UNCHANGED nonBillingVars

\* the user closes the blocking alert; the handler returns
dismissAlert ==
    /\ alert # ""
    /\ alert' = ""
    /\ UNCHANGED <<pageVars, formData, customerDetails, gstType>>
    /\ UNCHANGED nonBillingVars

\* ------------------------------------------------------- Billing: modal
handleView(i) ==
    /\ alert = "" /\ ~isModalOpen /\ i \in 1..Len(invoices)
    /\ editingInvoice' = invoices[i]
    /\ modalMode' = "view"
    /\ isModalOpen' = TRUE
    /\ Mount(invoices[i])
    /\ UNCHANGED <<store, invoices, products, alert, savePc, saveReq>>
    /\ UNCHANGED nonBillingVars

handleOpenCreateModal ==
    /\ alert = "" /\ ~isModalOpen
    /\ Len(store) < MaxInvoices
    /\ editingInvoice' = newInvoiceTemplate
    /\ modalMode' = "create"
    /\ isModalOpen' = TRUE
    /\ Mount(newInvoiceTemplate)
    /\ UNCHANGED <<store, invoices, products, alert, savePc, saveReq>>
    /\ UNCHANGED nonBillingVars

handleOpenEditModal(i) ==
    /\ alert = "" /\ ~isModalOpen /\ i \in 1..Len(invoices)
    /\ editingInvoice' = invoices[i]
    /\ modalMode' = "edit"
    /\ isModalOpen' = TRUE
    /\ Mount(invoices[i])
    /\ UNCHANGED <<store, invoices, products, alert, savePc, saveReq>>
    /\ UNCHANGED nonBillingVars

\* Modal onClose / the form's Cancel button
closeModal ==
    /\ alert = "" /\ isModalOpen
    /\ isModalOpen' = FALSE
    /\ Unmount
    /\ UNCHANGED <<store, invoices, products, modalMode, editingInvoice, alert, savePc, saveReq>>
    /\ UNCHANGED nonBillingVars

\* ------------------------------------------- Billing: save and refetch
NoRequest == NullInvoice

\* the backend answers the PUT / POST with an OK status
\* PUT /api/invoices/:id replaces the document with that _id, POST inserts
\* the body under a fresh _id
StoreAfter(st, body) ==
    IF body.id # ""
    THEN [i \in 1..Len(st) |-> IF st[i]._id = body.id
                                THEN [body EXCEPT !._id = st[i]._id] ELSE st[i]]
    ELSE Append(st, [body EXCEPT !._id = InvoiceIdAt(Len(st) + 1)])

saveResponseOk ==
    /\ savePc = "saving"
    /\ store' = StoreAfter(store, saveReq)
    /\ savePc' = "refetching"
    /\ saveReq' = NoRequest
    /\ UNCHANGED <<invoices, products, isModalOpen, modalMode, editingInvoice,
                   formData, customerDetails, gstType, alert>>
    /\ UNCHANGED nonBillingVars

\* variant: a failed save goes on to the refetch as well
saveResponseError_Refetch ==
    /\ savePc = "saving"
    /\ savePc' = "refetching"
    /\ saveReq' = NoRequest
    /\ UNCHANGED <<store, invoices, products, isModalOpen, modalMode, editingInvoice,
                   formData, customerDetails, gstType, alert>>
    /\ UNCHANGED nonBillingVars

\* the request fails or the status is not OK: catch logs, finally closes
saveResponseError ==
    /\ savePc = "saving"
    /\ savePc' = "idle"
    /\ saveReq' = NoRequest
    /\ isModalOpen' = FALSE
    /\ editingInvoice' = NullInvoice
    /\ Unmount
    /\ UNCHANGED <<store, invoices, products, modalMode, alert>>
    /\ UNCHANGED nonBillingVars

\* the list request of fetchAllData for a page, and the backend's answer:
\* the page's slice of the collection, with the collection's size as total
NoPageRequest == [skip |-> Undef, limit |-> Undef]
PageRequest(p) == [skip |-> (p - 1) * PAGE_SIZE, limit |-> PAGE_SIZE]
PageSlice(st, request) ==
    SubSeq(st, request.skip + 1,
           IF request.skip + request.limit < Len(st) THEN request.skip + request.limit
           ELSE Len(st))
\* setTotal(invoicesData.total || normalizedInvoices.length)
ReportedTotal(st, request) ==
    IF Len(st) # 0 THEN Len(st) ELSE Len(PageSlice(st, request))

\* normalizedInvoices / availableProducts of fetchAllData
normalizedInvoices(st) ==
    [i \in 1..Len(st) |-> [st[i] EXCEPT !.id = IF st[i]._id # "" THEN st[i]._id ELSE st[i].id]]

\* await fetchAllData() resolves, then finally closes the modal
refetchDone(catalogue) ==
    /\ savePc = "refetching"
    /\ billingRequest' = PageRequest(page)
    /\ invoices' = normalizedInvoices(PageSlice(store, PageRequest(page)))
    /\ billingTotal' = ReportedTotal(store, PageRequest(page))
    /\ products' = catalogue
    /\ savePc' = "idle"
    /\ isModalOpen' = FALSE
    /\ editingInvoice' = NullInvoice
    /\ Unmount
    /\ UNCHANGED <<store, modalMode, alert, saveReq, page>>
    /\ UNCHANGED nonBillingPageVars

\* a request of the awaited fetchAllData rejects or a body fails to parse:
\* its catch logs, nothing is replaced, and the finally closes the modal
refetchFailed ==
    /\ savePc = "refetching"
    /\ savePc' = "idle"
    /\ isModalOpen' = FALSE
    /\ editingInvoice' = NullInvoice
    /\ Unmount
    /\ UNCHANGED <<store, invoices, products, modalMode, alert, saveReq>>
    /\ UNCHANGED nonBillingVars

\* variant: a refetch re-prices the open form's lines from the catalogue
fetchAllData_Reprice(catalogue) ==
    /\ savePc \in {"idle", "reloading"}
    /\ billingRequest' = PageRequest(page)
    /\ invoices' = normalizedInvoices(PageSlice(store, PageRequest(page)))
    /\ billingTotal' = ReportedTotal(store, PageRequest(page))
    /\ products' = catalogue
    /\ savePc' = "idle"
    /\ formData' = [formData EXCEPT !.items = [i \in 1..Len(formData.items) |->
           LET item == formData.items[i]
               k == find(catalogue, item.productId)
           IN  IF k # 0 /\ catalogue[k].sellingPrice # Undef
               THEN [item EXCEPT !.price = catalogue[k].sellingPrice]
               ELSE item]]
    /\ UNCHANGED <<store, isModalOpen, modalMode, editingInvoice,
                   customerDetails, gstType, alert, saveReq, page>>
    /\ UNCHANGED nonBillingPageVars

\* fetchAllData run by the effect (mount, page change), or awaited by
\* handleDeleteInvoice
fetchAllData(catalogue) ==
    /\ savePc \in {"idle", "reloading"}
    /\ billingRequest' = PageRequest(page)
    /\ invoices' = normalizedInvoices(PageSlice(store, PageRequest(page)))
    /\ billingTotal' = ReportedTotal(store, PageRequest(page))
    /\ products' = catalogue
    /\ savePc' = "idle"
    /\ UNCHANGED <<store, isModalOpen, modalMode, editingInvoice, formData,
                   customerDetails, gstType, alert, saveReq, page>>
    /\ UNCHANGED nonBillingPageVars

\* ----------------------------------------------- Billing: pages and delete
CeilDiv(a, b) == (a + b - 1) \div b
totalPages == CeilDiv(billingTotal, PAGE_SIZE)
canPrev == page > 1
canNext == page < totalPages

\* a pagination button: setPage(p); the effect then runs fetchAllData
setPage(p) ==
    /\ page' = p
    /\ UNCHANGED <<store, invoices, products, isModalOpen, modalMode, editingInvoice,
                   formData, customerDetails, gstType, alert, savePc, saveReq,
                   billingTotal, billingRequest, nonBillingPageVars>>

\* handleDeleteInvoice, the confirm accepted and the DELETE answered ok; it
\* goes on to await fetchAllData()
handleDeleteInvoice(i) ==
    /\ savePc = "idle" /\ ~isModalOpen
    /\ i \in 1..Len(invoices)
    /\ store' = SelectSeq(store, LAMBDA d : d._id # invoices[i].id)
    /\ savePc' = "reloading"
    /\ UNCHANGED <<invoices, products, isModalOpen, modalMode, editingInvoice, formData,
                   customerDetails, gstType, alert, saveReq, pagingVars, nonBillingPageVars>>

\* ------------------------------------------------------------ recipes
\* Recipe money (costPerUnit, sellingPrice, cost, profit) is held in units of
\* 1/Mil of a rupee, so that a cost per unit may have a third decimal.
Mil == 1000

\* id is "" where the object has no id
emptyRecipe == [id |-> "", name |-> "", ingredients |-> << >>, sellingPrice |-> 0]
\* selectedRecipe = null
NullRecipe == [emptyRecipe EXCEPT !.id = "null"]

StockFull ==
    << [id |-> "s1", costPerUnit |-> 50 * Mil], [id |-> "s2", costPerUnit |-> 10 * Mil] >>
StockRepriced ==
    << [id |-> "s1", costPerUnit |-> 60 * Mil], [id |-> "s2", costPerUnit |-> 10 * Mil] >>
StockWithoutS2 == << [id |-> "s1", costPerUnit |-> 50 * Mil] >>
StockCatalogues == {StockFull, StockRepriced, StockWithoutS2}

\* Number(e.target.value) of the quantity input: any number may be typed
IngredientQuantityInputs == {2, -2}

\* stockItems.find(item => item.id === id): the first match, 0 when none
findStock(catalogue, id) ==
    LET hits == {k \in 1..Len(catalogue) : catalogue[k].id = id}
    IN  IF hits = {} THEN 0 ELSE CHOOSE k \in hits : \A j \in hits : k <= j

\* variant: a miss resets the running total
RECURSIVE CostReduce_ResetOnMiss(_, _)
CostReduce_ResetOnMiss(ingredients, catalogue) ==
    IF ingredients = << >> THEN 0
    ELSE LET total == CostReduce_ResetOnMiss(SubSeq(ingredients, 1, Len(ingredients) - 1), catalogue)
             ingredient == ingredients[Len(ingredients)]
             k == findStock(catalogue, ingredient.stockItemId)
         IN  IF k # 0 THEN total + catalogue[k].costPerUnit * ingredient.quantity ELSE 0

\* variant: a matched line is taken off the running total
RECURSIVE CostReduce_Subtract(_, _)
CostReduce_Subtract(ingredients, catalogue) ==
    IF ingredients = << >> THEN 0
    ELSE LET total == CostReduce_Subtract(SubSeq(ingredients, 1, Len(ingredients) - 1), catalogue)
             ingredient == ingredients[Len(ingredients)]
             k == findStock(catalogue, ingredient.stockItemId)
         IN  IF k # 0 THEN total - catalogue[k].costPerUnit * ingredient.quantity ELSE total

\* ingredients.reduce((total, ingredient) => ..., 0)
RECURSIVE CostReduce(_, _)
CostReduce(ingredients, catalogue) ==
    IF ingredients = << >> THEN 0
    ELSE LET total == CostReduce(SubSeq(ingredients, 1, Len(ingredients) - 1), catalogue)
             ingredient == ingredients[Len(ingredients)]
             k == findStock(catalogue, ingredient.stockItemId)
         IN  IF k # 0 THEN total + catalogue[k].costPerUnit * ingredient.quantity ELSE total

\* RecipeForm
manufacturingCost == CostReduce(recipeFormData.ingredients, stockItems)

\* the cost of the recipe page's recipeDetails
recipeCost(recipe) == CostReduce(recipe.ingredients, stockItems)

\* variant: the margin is taken on the cost (a markup)
recipeDetails_MarginOnCost(recipe) ==
    LET cost == recipeCost(recipe)
        profit == recipe.sellingPrice - cost
    IN  [cost |-> cost, profit |-> profit,
         margin |-> IF recipe.sellingPrice > 0 THEN Times100(JsDiv(profit, cost)) ELSE Zero]

\* CostProfitCalculator: recipeDetails of a selected recipe
recipeDetails(recipe) ==
    LET cost == recipeCost(recipe)
        profit == recipe.sellingPrice - cost
    IN  [cost |-> cost, profit |-> profit,
         margin |-> IF recipe.sellingPrice > 0
                    THEN Times100(JsDiv(profit, recipe.sellingPrice)) ELSE Zero]

\* CostProfitCalculator: the fetch of the recipe list and the stock catalogue
\* resolves, and the effect keeps the selection if a recipe of that id is
\* still listed, else selects the first
calcFetched(list, catalogue) ==
    /\ recipes' = list
    /\ stockItems' = catalogue
    /\ selectedRecipe' =
           IF list = << >> THEN NullRecipe
           ELSE IF selectedRecipe # NullRecipe
                   /\ \E k \in 1..Len(list) : list[k].id = selectedRecipe.id
                THEN selectedRecipe
                ELSE list[1]
    /\ UNCHANGED <<recipeFormData, ingredientRef, nonRecipeVars>>

\* a click on a recipe of the list
selectRecipe(k) ==
    /\ k \in 1..Len(recipes)
    /\ selectedRecipe' = recipes[k]
    /\ UNCHANGED <<recipes, stockItems, recipeFormData, ingredientRef, nonRecipeVars>>

\* Refresh All Costs: the latest stock catalogue replaces stockItems
handleRecalculateAll(catalogue) ==
    /\ stockItems' = catalogue
    /\ UNCHANGED <<recipes, selectedRecipe, recipeFormData, ingredientRef, nonRecipeVars>>

addIngredient ==
    /\ Len(recipeFormData.ingredients) < MaxIngredients
    /\ recipeFormData' = [recipeFormData EXCEPT
           !.ingredients = Append(@, [stockItemId |-> "", quantity |-> 0])]
    /\ ingredientRef' = Append(ingredientRef, 0)
    /\ UNCHANGED <<recipes, stockItems, selectedRecipe, nonRecipeVars>>

\* newIngredients[index][field] = value writes into the ingredient object,
\* which the form shares with the recipe it was opened on
handleIngredientChange(index, field, value) ==
    /\ index \in 1..Len(recipeFormData.ingredients)
    /\ recipeFormData' = [recipeFormData EXCEPT !.ingredients[index][field] = value]
    /\ selectedRecipe' =
           IF ingredientRef[index] = 0 THEN selectedRecipe
           ELSE [selectedRecipe EXCEPT !.ingredients[ingredientRef[index]][field] = value]
    /\ recipes' = [k \in 1..Len(recipes) |->
                      IF recipes[k] = selectedRecipe THEN selectedRecipe' ELSE recipes[k]]
    /\ UNCHANGED <<stockItems, ingredientRef, nonRecipeVars>>

removeIngredient(index) ==
    /\ index \in 1..Len(recipeFormData.ingredients)
    /\ recipeFormData' = [recipeFormData EXCEPT !.ingredients = RemoveAt(@, index)]
    /\ ingredientRef' = RemoveAt(ingredientRef, index)
    /\ UNCHANGED <<recipes, stockItems, selectedRecipe, nonRecipeVars>>

\* the page refetches the stock catalogue
setStockItems(catalogue) ==
    /\ stockItems' = catalogue
    /\ UNCHANGED <<recipes, selectedRecipe, recipeFormData, ingredientRef, nonRecipeVars>>

\* ------------------------------------------------------ Recipe Management
\* src/pages/RecipeManagement.tsx with src/components/RecipeForm.tsx in its
\* modal.  A stored recipe carries the backend's _id; a recipe of the page
\* carries id as well.
loading == recipePc \in {"fetching", "refetching"}

NoRecipeRequest == [method |-> "", id |-> "", body |-> emptyRecipe]

\* recipesData.map(r => ({ ...r, id: r._id || r.id }))
normalizedRecipes(recipesData) ==
    [k \in 1..Len(recipesData) |->
        [f \in DOMAIN recipesData[k] \cup {"id"} |->
            IF f = "id" THEN recipesData[k]._id ELSE recipesData[k][f]]]

\* const { id, ...rest } = recipeData
WithoutId(recipeData) == [f \in DOMAIN recipeData \ {"id"} |-> recipeData[f]]

\* the form leaves the screen with its state
RecipeFormUnmount ==
    /\ recipeFormData' = emptyRecipe
    /\ ingredientRef' = << >>
    /\ recipeAlert' = FALSE

\* useState(initialRecipe): the form state is the recipe object itself
RecipeFormMount(initialRecipe) ==
    /\ recipeFormData' = initialRecipe
    /\ ingredientRef' = [i \in 1..Len(initialRecipe.ingredients) |-> i]
    /\ recipeAlert' = FALSE

\* the finally block of handleSaveRecipe
SaveRecipeFinally ==
    /\ isFormModalOpen' = FALSE
    /\ selectedRecipe' = NullRecipe
    /\ RecipeFormUnmount
    /\ recipePc' = "idle"
    /\ recipeReq' = NoRecipeRequest

\* both responses of fetchAll arrive and parse: of the mount, or of a save
fetchAll(stockData) ==
    /\ loading
    /\ recipes' = normalizedRecipes(recipeStore)
    /\ stockItems' = stockData
    /\ IF recipePc = "refetching"
       THEN SaveRecipeFinally
       ELSE /\ recipePc' = "idle"
            /\ UNCHANGED <<isFormModalOpen, selectedRecipe, recipeFormData,
                           ingredientRef, recipeAlert, recipeReq>>
    /\ UNCHANGED <<recipeStore, nonManagementVars>>

\* a request of fetchAll rejects or a body fails to parse: the catch logs
fetchAllFailed ==
    /\ loading
    /\ IF recipePc = "refetching"
       THEN SaveRecipeFinally
       ELSE /\ recipePc' = "idle"
            /\ UNCHANGED <<isFormModalOpen, selectedRecipe, recipeFormData,
                           ingredientRef, recipeAlert, recipeReq>>
    /\ UNCHANGED <<recipes, stockItems, recipeStore, nonManagementVars>>

\* + Create Recipe
openCreateRecipe ==
    /\ selectedRecipe' = emptyRecipe
    /\ isFormModalOpen' = TRUE
    /\ RecipeFormMount(emptyRecipe)
    /\ UNCHANGED <<recipes, stockItems, recipeStore, recipePc, recipeReq, nonManagementVars>>

\* Edit on a row of the table
openEditRecipe(k) ==
    /\ k \in 1..Len(recipes)
    /\ selectedRecipe' = recipes[k]
    /\ isFormModalOpen' = TRUE
    /\ RecipeFormMount(recipes[k])
    /\ UNCHANGED <<recipes, stockItems, recipeStore, recipePc, recipeReq, nonManagementVars>>

\* the modal's close button and the form's Cancel
closeRecipeModal ==
    /\ isFormModalOpen' = FALSE
    /\ RecipeFormUnmount
    /\ UNCHANGED <<recipes, stockItems, selectedRecipe, recipeStore, recipePc,
                   recipeReq, nonManagementVars>>

\* RecipeForm.handleInputChange: name is kept as typed, sellingPrice as a number
RecipeForm_handleInputChange(name, value) ==
    /\ recipeFormData' = [recipeFormData EXCEPT ![name] = value]
    /\ UNCHANGED <<recipes, stockItems, selectedRecipe, ingredientRef, nonRecipeVars>>

\* the browser's constraint validation of the form's inputs: name required,
\* sellingPrice min 0, every quantity min 0.001
ConstraintsValid(fd) ==
    /\ fd.name # ""
    /\ fd.sellingPrice >= 0
    /\ \A i \in 1..Len(fd.ingredients) : fd.ingredients[i].quantity > 0

\* the test of RecipeForm.handleSubmit
RecipeInvalid(fd) ==
    \/ fd.name = ""
    \/ \E i \in 1..Len(fd.ingredients) :
           fd.ingredients[i].stockItemId = "" \/ fd.ingredients[i].quantity <= 0

\* RecipeManagement.handleSaveRecipe up to the request
saveRecipeRequest(recipeData) ==
    IF recipeData.id # ""
    THEN [method |-> "PUT", id |-> recipeData.id, body |-> WithoutId(recipeData)]
    ELSE [method |-> "POST", id |-> "", body |-> recipeData]

\* RecipeForm.handleSubmit, with onSave = RecipeManagement.handleSaveRecipe
RecipeForm_handleSubmit ==
    /\ isFormModalOpen
    /\ ConstraintsValid(recipeFormData)
    /\ IF RecipeInvalid(recipeFormData)
       THEN /\ recipeAlert' = TRUE
            /\ UNCHANGED <<recipePc, recipeReq>>
       ELSE /\ recipeReq' = saveRecipeRequest(recipeFormData)
            /\ recipePc' = "saving"
            /\ UNCHANGED recipeAlert
    /\ UNCHANGED <<recipeVars, recipeStore, isFormModalOpen, nonManagementVars>>

dismissRecipeAlert ==
    /\ recipeAlert
    /\ recipeAlert' = FALSE
    /\ UNCHANGED <<recipeVars, recipeStore, isFormModalOpen, recipePc, recipeReq,
                   nonManagementVars>>

\* the backend after the request: a POST adds a document under a new _id,
\* a PUT replaces the fields of the document of that id
NewRecipeId(docs) == <<"r1", "r2", "r3">>[Len(docs) + 1]
RecipeStoreAfter(docs, req) ==
    IF req.method = "POST"
    THEN Append(docs, [f \in (DOMAIN req.body \ {"id"}) \cup {"_id"} |->
                          IF f = "_id" THEN NewRecipeId(docs) ELSE req.body[f]])
    ELSE [k \in 1..Len(docs) |->
             IF docs[k]._id = req.id
             THEN [f \in DOMAIN docs[k] |->
                      IF f \in DOMAIN req.body /\ f # "_id" THEN req.body[f] ELSE docs[k][f]]
             ELSE docs[k]]

\* response.ok: handleSaveRecipe goes on to "await fetchAll()", whose
\* setLoading(true) takes the page, the modal with it, off the screen
saveRecipeOk ==
    /\ recipePc = "saving"
    /\ recipeStore' = RecipeStoreAfter(recipeStore, recipeReq)
    /\ recipePc' = "refetching"
    /\ RecipeFormUnmount
    /\ UNCHANGED <<recipes, stockItems, selectedRecipe, isFormModalOpen, recipeReq,
                   nonManagementVars>>

\* the request rejects or !response.ok: the catch logs, the finally runs
saveRecipeFailed ==
    /\ recipePc = "saving"
    /\ SaveRecipeFinally
    /\ UNCHANGED <<recipes, stockItems, recipeStore, nonManagementVars>>

\* -------------------------------------------------------- Stock Management
\* src/unnamed/part_006:356-: a stock item of this page carries the fields
\* the handlers below read, id, quantity and lowStockThreshold; the forms
\* add the name. The costs of an item, which do not bear on its quantity,
\* are left out of the edit form.
StockStatuses == {"In Stock", "Low Stock", "Out of Stock"}
NullItem == [id |-> "null", quantity |-> 0, lowStockThreshold |-> 0]
NoPurchase == [quantity_added |-> 0, cost_per_unit_of_purchase |-> 0]
NoStockBody == [name |-> "", quantity |-> 0, lowStockThreshold |-> 0]
NoStockRequest ==
    [method |-> "", id |-> "", path |-> "", purchase |-> NoPurchase, body |-> NoStockBody]

\* useState('') x 2 of AdjustStockForm
BlankAdjustForm == [quantityAdded |-> Blank, costPerUnit |-> Blank]

\* StockForm with no item; id is "" where the item has no id field
NoStockForm == [id |-> "", name |-> "", quantity |-> 0, lowStockThreshold |-> 0]
newStockItemTemplate == [id |-> "", name |-> "", quantity |-> 0, lowStockThreshold |-> 0]

\* the name every stored item has
ItemName(id) == IF id = "" THEN "" ELSE "Flour"

\* variant: the threshold is compared first
getStockStatus_ThresholdFirst(item) ==
    IF item.quantity <= item.lowStockThreshold THEN "Low Stock"
    ELSE IF item.quantity <= 0 THEN "Out of Stock"
    ELSE "In Stock"

getStockStatus(item) ==
    IF item.quantity <= 0 THEN "Out of Stock"
    ELSE IF item.quantity <= item.lowStockThreshold THEN "Low Stock"
    ELSE "In Stock"

\* stock.forEach(item => counts[getStockStatus(item)]++)
RECURSIVE CountStatus(_, _, _)
CountStatus(list, n, counts) ==
    IF n > Len(list) THEN counts
    ELSE CountStatus(list, n + 1,
                     [counts EXCEPT ![getStockStatus(list[n])] = @ + 1])
stockStatusData == CountStatus(stock, 1, [s \in StockStatuses |-> 0])

\* items.map(item => ({ ...item, id: item._id || item.id }))
mappedStock(items) ==
    [k \in 1..Len(items) |->
        [id |-> items[k]._id, quantity |-> items[k].quantity,
         lowStockThreshold |-> items[k].lowStockThreshold]]

\* the parameters of a list request: those of the effect's fetchStock for a
\* status filter (page 1), and the bare URL of fetchAndSetStock
NoListRequest == [skip |-> Undef, limit |-> Undef, status |-> "none"]
RefreshRequest == [skip |-> Undef, limit |-> Undef, status |-> ""]
params(filter) ==
    [skip |-> (1 - 1) * PAGE_SIZE, limit |-> PAGE_SIZE,
     status |-> IF filter # "all" THEN filter ELSE ""]
\* the items the backend answers a list request with: all of them, or those
\* of the status asked for
ListAnswer(docs, request) ==
    IF request.status = "" THEN docs
    ELSE SelectSeq(docs, LAMBDA d : getStockStatus(d) = request.status)

\* the finally block of handleAdjustStock
AdjustStockFinally ==
    /\ isAdjustModalOpen' = FALSE
    /\ selectedItem' = NullItem
    /\ adjustForm' = BlankAdjustForm
    /\ stockPc' = "idle"
    /\ stockReq' = NoStockRequest
    /\ UNCHANGED <<isStockFormModalOpen, stockForm>>

\* the finally block of handleSaveStockItem
SaveStockFinally ==
    /\ isStockFormModalOpen' = FALSE
    /\ selectedItem' = NullItem
    /\ stockForm' = NoStockForm
    /\ stockPc' = "idle"
    /\ stockReq' = NoStockRequest
    /\ UNCHANGED <<isAdjustModalOpen, adjustForm>>

\* the finally of the handler that awaits fetchAndSetStock
StockFinally ==
    IF stockReq.path = "purchases" THEN AdjustStockFinally ELSE SaveStockFinally

\* the response of fetchStock (the mount) or of fetchAndSetStock (after a
\* purchase or a save) arrives and parses
fetchStock ==
    /\ stockPc \in {"fetching", "refetching"}
    /\ stock' = mappedStock(stockStore)
    /\ IF stockPc = "refetching"
       THEN StockFinally /\ UNCHANGED stockTotal
       ELSE /\ stockPc' = "idle"
            /\ stockTotal' = Len(stockStore)
            /\ UNCHANGED <<selectedItem, isAdjustModalOpen, stockReq, adjustForm,
                           isStockFormModalOpen, stockForm>>
    /\ stockLoading' = FALSE
    /\ UNCHANGED <<stockStore, statusFilter, stockFetches, lastRequest, nonStockPageVars>>

\* the request rejects or the body fails to parse: the catch logs
fetchStockFailed ==
    /\ stockPc \in {"fetching", "refetching"}
    /\ IF stockPc = "refetching"
       THEN StockFinally
       ELSE /\ stockPc' = "idle"
            /\ UNCHANGED <<selectedItem, isAdjustModalOpen, stockReq, adjustForm,
                           isStockFormModalOpen, stockForm>>
    /\ stockLoading' = FALSE
    /\ UNCHANGED <<stock, stockStore, lastRequest, stockListVars, nonStockPageVars>>

handleOpenAdjustModal(k) ==
    /\ k \in 1..Len(stock)
    /\ selectedItem' = stock[k]
    /\ isAdjustModalOpen' = TRUE
    /\ adjustForm' = BlankAdjustForm
    /\ UNCHANGED <<stock, stockStore, stockPc, stockReq, isStockFormModalOpen, stockForm,
                   nonStockVars>>

closeAdjustModal ==
    /\ isAdjustModalOpen' = FALSE
    /\ adjustForm' = BlankAdjustForm
    /\ UNCHANGED <<stock, stockStore, selectedItem, stockPc, stockReq,
                   isStockFormModalOpen, stockForm, nonStockVars>>

\* the Quantity Added and Cost Per Unit inputs of AdjustStockForm
setQuantityAdded(value) ==
    /\ isAdjustModalOpen
    /\ adjustForm' = [adjustForm EXCEPT !.quantityAdded = value]
    /\ UNCHANGED <<stock, stockStore, selectedItem, isAdjustModalOpen, stockPc, stockReq,
                   isStockFormModalOpen, stockForm, nonStockVars>>

setCostPerUnit(value) ==
    /\ isAdjustModalOpen
    /\ adjustForm' = [adjustForm EXCEPT !.costPerUnit = value]
    /\ UNCHANGED <<stock, stockStore, selectedItem, isAdjustModalOpen, stockPc, stockReq,
                   isStockFormModalOpen, stockForm, nonStockVars>>

\* required, min="0.01" and min="0" of the two inputs: the browser submits
\* the form only when both hold a number in range
AdjustConstraintsValid(form) ==
    /\ form.quantityAdded # Blank /\ form.quantityAdded > 0
    /\ form.costPerUnit # Blank /\ form.costPerUnit >= 0

\* numQuantityAdded <= 0 || numCostPerUnit < 0
PurchaseInvalid(numQuantityAdded, numCostPerUnit) ==
    numQuantityAdded <= 0 \/ numCostPerUnit < 0

purchaseData(numQuantityAdded, numCostPerUnit) ==
    [quantity_added |-> numQuantityAdded, cost_per_unit_of_purchase |-> numCostPerUnit]

\* Record Purchase pressed: AdjustStockForm.handleSubmit with onSave =
\* handleAdjustStock, up to the request; a submit the browser holds back and
\* the alert of an invalid quantity or cost leave everything as it is
AdjustStockForm_handleSubmit ==
    LET numQuantityAdded == ToNumber(adjustForm.quantityAdded)
        numCostPerUnit == ToNumber(adjustForm.costPerUnit)
    IN  /\ isAdjustModalOpen
        /\ IF \/ ~AdjustConstraintsValid(adjustForm)
              \/ PurchaseInvalid(numQuantityAdded, numCostPerUnit)
           THEN UNCHANGED <<stockPc, stockReq>>
           ELSE /\ stockReq' = [NoStockRequest EXCEPT
                                   !.method = "POST", !.id = selectedItem.id,
                                   !.path = "purchases",
                                   !.purchase = purchaseData(numQuantityAdded, numCostPerUnit)]
                /\ stockPc' = "adjusting"
        /\ UNCHANGED <<stock, stockStore, selectedItem, isAdjustModalOpen, adjustForm,
                       isStockFormModalOpen, stockForm, nonStockVars>>

\* the backend records the purchase; handleAdjustStock goes on to
\* "await fetchAndSetStock()"
adjustStockOk ==
    /\ stockPc = "adjusting"
    /\ stockStore' = [k \in 1..Len(stockStore) |->
                         IF stockStore[k]._id = stockReq.id
                         THEN [stockStore[k] EXCEPT
                                  !.quantity = @ + stockReq.purchase.quantity_added]
                         ELSE stockStore[k]]
    /\ stockPc' = "refetching"
    /\ stockLoading' = TRUE
    /\ lastRequest' = RefreshRequest
    /\ UNCHANGED <<stock, selectedItem, isAdjustModalOpen, stockReq, adjustForm,
                   isStockFormModalOpen, stockForm, stockListVars, nonStockPageVars>>

\* the purchase rejects or !response.ok: the catch logs, the finally runs
adjustStockFailed ==
    /\ stockPc = "adjusting"
    /\ AdjustStockFinally
    /\ UNCHANGED <<stock, stockStore, nonStockVars>>

\* ---------------------------------------------- Stock Management: StockForm
\* useState(initialItem) of StockForm
StockFormMount(item) ==
    [id |-> item.id, name |-> ItemName(item.id), quantity |-> item.quantity,
     lowStockThreshold |-> item.lowStockThreshold]

\* 'id' in initialItem
isEditMode == selectedItem.id # ""

StockManagement_handleOpenEditModal(k) ==
    /\ k \in 1..Len(stock)
    /\ selectedItem' = stock[k]
    /\ isStockFormModalOpen' = TRUE
    /\ stockForm' = StockFormMount(stock[k])
    /\ UNCHANGED <<stock, stockStore, stockPc, stockReq, isAdjustModalOpen, adjustForm,
                   nonStockVars>>

StockManagement_handleOpenCreateModal ==
    /\ selectedItem' = [id |-> "", quantity |-> 0, lowStockThreshold |-> 0]
    /\ isStockFormModalOpen' = TRUE
    /\ stockForm' = newStockItemTemplate
    /\ UNCHANGED <<stock, stockStore, stockPc, stockReq, isAdjustModalOpen, adjustForm,
                   nonStockVars>>

\* onClose / onCancel: setFormModalOpen(false); the StockForm unmounts
closeStockForm ==
    /\ isStockFormModalOpen' = FALSE
    /\ stockForm' = NoStockForm
    /\ UNCHANGED <<stock, stockStore, selectedItem, stockPc, stockReq, isAdjustModalOpen,
                   adjustForm, nonStockVars>>

\* variant: the Quantity input takes edits in edit mode too
StockForm_handleChange_Editable(name, value) ==
    /\ isStockFormModalOpen
    /\ stockForm' = [stockForm EXCEPT
                        ![name] = IF name = "name" THEN value ELSE ToNumber(value)]
    /\ UNCHANGED <<stock, stockStore, selectedItem, stockPc, stockReq, isAdjustModalOpen,
                   adjustForm, isStockFormModalOpen, nonStockVars>>

\* StockForm.handleChange: the numeric fields go through Number(value); the
\* Quantity input is readOnly in edit mode
StockForm_handleChange(name, value) ==
    /\ isStockFormModalOpen
    /\ name = "quantity" => ~isEditMode
    /\ stockForm' = [stockForm EXCEPT
                        ![name] = IF name = "name" THEN value ELSE ToNumber(value)]
    /\ UNCHANGED <<stock, stockStore, selectedItem, stockPc, stockReq, isAdjustModalOpen,
                   adjustForm, isStockFormModalOpen, nonStockVars>>

\* required on the name, min="0" on the inputs the user can change
StockConstraintsValid(form) ==
    /\ form.name # ""
    /\ form.lowStockThreshold >= 0
    /\ ~isEditMode => form.quantity >= 0

\* getFinalData: the form's data with the id of initialItem
getFinalData ==
    IF isEditMode /\ selectedItem.id # ""
    THEN [stockForm EXCEPT !.id = selectedItem.id]
    ELSE stockForm

\* handleSaveStockItem up to the request: PUT without the id in the body
\* when the item has one, POST otherwise
saveStockRequest(itemData) ==
    [NoStockRequest EXCEPT
        !.method = IF itemData.id # "" THEN "PUT" ELSE "POST",
        !.id = itemData.id,
        !.path = "stock_items",
        !.body = [name |-> itemData.name, quantity |-> itemData.quantity,
                  lowStockThreshold |-> itemData.lowStockThreshold]]

\* Save Item pressed: StockForm.handleSubmit with onSave = handleSaveStockItem
StockForm_handleSubmit ==
    /\ isStockFormModalOpen
    /\ IF ~StockConstraintsValid(stockForm) \/ stockForm.name = ""
       THEN UNCHANGED <<stockPc, stockReq>>
       ELSE /\ stockReq' = saveStockRequest(getFinalData)
            /\ stockPc' = "saving"
    /\ UNCHANGED <<stock, stockStore, selectedItem, isAdjustModalOpen, adjustForm,
                   isStockFormModalOpen, stockForm, nonStockVars>>

\* the _id the backend gives a new document: the first one not in use
StockIds == <<"s1", "s2", "s3", "s4", "s5">>
NewStockId(docs) ==
    LET free == {n \in 1..Len(StockIds) : \A k \in 1..Len(docs) : docs[k]._id # StockIds[n]}
    IN  StockIds[CHOOSE n \in free : \A m \in free : n <= m]

\* the backend stores the body it receives
StockStoreAfter(docs, req) ==
    IF req.method = "PUT"
    THEN [k \in 1..Len(docs) |->
             IF docs[k]._id = req.id
             THEN [docs[k] EXCEPT !.quantity = req.body.quantity,
                                  !.lowStockThreshold = req.body.lowStockThreshold]
             ELSE docs[k]]
    ELSE Append(docs, [_id |-> NewStockId(docs), quantity |-> req.body.quantity,
                       lowStockThreshold |-> req.body.lowStockThreshold])

saveStockOk ==
    /\ stockPc = "saving"
    /\ stockStore' = StockStoreAfter(stockStore, stockReq)
    /\ stockPc' = "refetching"
    /\ stockLoading' = TRUE
    /\ lastRequest' = RefreshRequest
    /\ UNCHANGED <<stock, selectedItem, isAdjustModalOpen, stockReq, adjustForm,
                   isStockFormModalOpen, stockForm, stockListVars, nonStockPageVars>>

saveStockFailed ==
    /\ stockPc = "saving"
    /\ SaveStockFinally
    /\ UNCHANGED <<stock, stockStore, nonStockVars>>

\* ------------------------------------------------ Stock Management: delete
\* handleDeleteItem, confirmed, up to the request
handleDeleteItem(k) ==
    /\ k \in 1..Len(stock)
    /\ stock[k].id # ""
    /\ stockReq' = [NoStockRequest EXCEPT !.method = "DELETE", !.id = stock[k].id,
                                          !.path = "stock_items"]
    /\ stockPc' = "deleting"
    /\ UNCHANGED <<stock, stockStore, selectedItem, isAdjustModalOpen, adjustForm,
                   isStockFormModalOpen, stockForm, nonStockVars>>

\* response.ok: setStock(prev => prev.filter(item => item.id !== itemId))
deleteItemOk ==
    /\ stockPc = "deleting"
    /\ stockStore' = SelectSeq(stockStore, LAMBDA d : d._id # stockReq.id)
    /\ stock' = SelectSeq(stock, LAMBDA item : item.id # stockReq.id)
    /\ stockPc' = "idle"
    /\ stockReq' = NoStockRequest
    /\ UNCHANGED <<selectedItem, isAdjustModalOpen, adjustForm, isStockFormModalOpen,
                   stockForm, nonStockVars>>

deleteItemFailed ==
    /\ stockPc = "deleting"
    /\ stockPc' = "idle"
    /\ stockReq' = NoStockRequest
    /\ UNCHANGED <<stock, stockStore, selectedItem, isAdjustModalOpen, adjustForm,
                   isStockFormModalOpen, stockForm, nonStockVars>>

\* ------------------------------------------- Stock Management: the query
\* the status select: setStatusFilter(value); setPage(1).  The effect on
\* [token, page, searchTerm, categoryFilter, statusFilter] then runs
\* fetchStock: setLoading(true) and the request, with nothing that cancels
\* or outdates the requests sent before.  The search box, the category
\* select and the page buttons start the same effect.
setStatusFilter(value) ==
    /\ value # statusFilter
    /\ statusFilter' = value
    /\ stockLoading' = TRUE
    /\ stockFetches' = Append(stockFetches, params(value))
    /\ lastRequest' = params(value)
    /\ UNCHANGED <<stockStore, stock, selectedItem, isAdjustModalOpen, stockPc, stockReq,
                   adjustForm, isStockFormModalOpen, stockForm, stockTotal, nonStockPageVars>>

\* the response of one of the effect's requests arrives and parses:
\* setTotal(data.total || items.length), setStock(mapped), and the finally
fetchStockResponse(i) ==
    /\ i \in 1..Len(stockFetches)
    /\ LET items == ListAnswer(stockStore, stockFetches[i])
       IN  /\ stockTotal' = Len(items)
           /\ stock' = mappedStock(items)
    /\ stockLoading' = FALSE
    /\ stockFetches' = RemoveAt(stockFetches, i)
    /\ UNCHANGED <<stockStore, selectedItem, isAdjustModalOpen, stockPc, stockReq, adjustForm,
                   isStockFormModalOpen, stockForm, statusFilter, lastRequest,
                   nonStockPageVars>>

\* ------------------------------------------------------------- Customers
\* src/unnamed/part_005.  A Date is the local calendar day, as year and day
\* of the year, with the time of day; a stored date string "YYYY-MM-DD" is
\* the three numbers that split('-').map(Number) makes of it, NoDate when
\* the field is undefined or ''.
NoDate == [year |-> 0, month |-> 0, day |-> 0]
NullDate == [year |-> 0, doy |-> 0, ms |-> 0]

IsLeap(y) == y % 4 = 0 /\ (y % 100 # 0 \/ y % 400 = 0)
DaysInMonth(y, m) ==
    IF m = 2 THEN (IF IsLeap(y) THEN 29 ELSE 28)
    ELSE IF m \in {4, 6, 9, 11} THEN 30 ELSE 31
DaysInYear(y) == IF IsLeap(y) THEN 366 ELSE 365
RECURSIVE DaysBeforeMonth(_, _)
DaysBeforeMonth(y, m) ==
    IF m <= 1 THEN 0 ELSE DaysBeforeMonth(y, m - 1) + DaysInMonth(y, m - 1)

\* new Date(year, month - 1, day), month in 1..12 and day in 1..31: local
\* midnight, a day past the end of the month carrying into the next month
NewDate(year, month, day) ==
    LET doy == DaysBeforeMonth(year, month) + day
    IN  IF doy > DaysInYear(year)
        THEN [year |-> year + 1, doy |-> doy - DaysInYear(year), ms |-> 0]
        ELSE [year |-> year, doy |-> doy, ms |-> 0]

\* the relational < of two Dates compares their time values
DateLess(a, b) ==
    \/ a.year < b.year
    \/ a.year = b.year /\ a.doy < b.doy
    \/ a.year = b.year /\ a.doy = b.doy /\ a.ms < b.ms

\* getMonth() + 1 and getDate()
MonthOf(date) ==
    CHOOSE m \in 1..12 :
        /\ DaysBeforeMonth(date.year, m) < date.doy
        /\ date.doy <= DaysBeforeMonth(date.year, m) + DaysInMonth(date.year, m)
DayOf(date) == date.doy - DaysBeforeMonth(date.year, MonthOf(date))

\* today is the "new Date()" of the call
getNextEventDate(dateStr, today) ==
    IF dateStr = NoDate THEN NullDate
    ELSE LET eventDate == NewDate(today.year, dateStr.month, dateStr.day)
         IN  IF DateLess(eventDate, today)
             THEN NewDate(today.year + 1, dateStr.month, dateStr.day)
             ELSE eventDate

\* the events one customer contributes, birthday first
EventsOf(c, now) ==
    LET nextBirthday == getNextEventDate(c.birthday, now)
        nextAnniversary == getNextEventDate(c.anniversary, now)
        InMonth(d) == d # NullDate /\ MonthOf(d) = MonthOf(now) /\ d.year = now.year
    IN  (IF InMonth(nextBirthday)
         THEN << [name |-> c.name, date |-> nextBirthday, type |-> "Birthday"] >>
         ELSE << >>)
        \o (IF InMonth(nextAnniversary)
            THEN << [name |-> c.name, date |-> nextAnniversary, type |-> "Anniversary"] >>
            ELSE << >>)

\* events.sort((a, b) => new Date(a.date).getTime() - new Date(b.date).getTime()):
\* a stable sort by day
RECURSIVE SortByDate(_)
SortByDate(events) ==
    IF events = << >> THEN << >>
    ELSE LET rest == SortByDate(Tail(events))
             e == Head(events)
             before == SelectSeq(rest, LAMBDA x : DateLess(x.date, e.date))
             after == SelectSeq(rest, LAMBDA x : ~DateLess(x.date, e.date))
         IN  before \o <<e>> \o after
RECURSIVE CollectEvents(_, _)
CollectEvents(list, now) ==
    IF list = << >> THEN << >>
    ELSE EventsOf(Head(list), now) \o CollectEvents(Tail(list), now)
monthEvents(list, now) == SortByDate(CollectEvents(list, now))

\* the customer list arrives: setCustomers, and the memo on [customers] is
\* recomputed in the render that follows
customersFetched(list) ==
    /\ customers' = list
    /\ currentMonthEvents' = monthEvents(list, clock)
    /\ UNCHANGED <<clock, dashboardCustomers, upcomingBirthdays, nonCustomerVars>>

\* time passes, to a later moment of the day or into the next day
advanceClock(next) ==
    /\ DateLess(clock, next)
    /\ clock' = next
    /\ UNCHANGED <<customers, currentMonthEvents, dashboardCustomers, upcomingBirthdays,
                   nonCustomerVars>>

\* --------------------------------------------- Dashboard: upcomingBirthdays
\* src/unnamed/part_003:62-72.  new Date("YYYY-MM-DD") is midnight UTC of
\* that day; the browser's zone is taken to be UTC, so it is local midnight.
RECURSIVE AddDays(_, _)
AddDays(date, n) ==
    IF n = 0 THEN date
    ELSE AddDays(IF date.doy = DaysInYear(date.year)
                 THEN [date EXCEPT !.year = @ + 1, !.doy = 1]
                 ELSE [date EXCEPT !.doy = @ + 1], n - 1)

\* birthday.setFullYear(today.getFullYear()) of the parsed birthday: the 29th
\* of February moves to the 1st of March in a year that has none
birthdayThisYear(dateStr, today) == NewDate(today.year, dateStr.month, dateStr.day)

\* the filter's test; an absent birthday parses to an Invalid Date, which
\* compares false with everything
isUpcoming(c, today) ==
    /\ c.birthday # NoDate
    /\ LET nextWeek == AddDays(today, 7)
           birthday == birthdayThisYear(c.birthday, today)
       IN  ~DateLess(birthday, today) /\ ~DateLess(nextWeek, birthday)

countUpcoming(list, today) == Len(SelectSeq(list, LAMBDA c : isUpcoming(c, today)))

\* setCustomers(await customersRes.json()) with the list the response
\* carries; the memo on [customers] is recomputed in the render that follows
Dashboard_setCustomers(list) ==
    /\ dashboardCustomers' = list
    /\ upcomingBirthdays' = countUpcoming(list, clock)
    /\ UNCHANGED <<clock, customers, currentMonthEvents, nonCustomerVars>>

\* ------------------------------------------------------------------- auth
\* The AuthProvider (src/App.tsx:41-89), the Login page and the two ways a
\* view issues a request: through src/utils/fetchWithAuth.ts, and with the
\* browser's fetch and an Authorization header (src/pages/Billing.tsx).
\* '' stands for an absent token or e-mail.
Views == {"/", "/billing", "/stock", "/calculator", "/customers"}
NoResponse == [view |-> "", status |-> 0, outcome |-> ""]

\* login, the response ok: the token is kept in state and in localStorage,
\* and Login.handleSubmit navigates to '/'
login(email, access_token) ==
    /\ href = "/login"
    /\ token' = access_token
    /\ userEmail' = email
    /\ localStorage' = [token |-> access_token, userEmail |-> email]
    /\ href' = "/"
    /\ lastResponse' = NoResponse
    /\ UNCHANGED nonAuthVars

\* login, !response.ok or an exception: returns false
loginFailed ==
    /\ href = "/login"
    /\ lastResponse' = NoResponse
    /\ UNCHANGED <<localStorage, token, userEmail, href, nonAuthVars>>

logout ==
    /\ href \in Views
    /\ token' = ""
    /\ userEmail' = ""
    /\ localStorage' = [token |-> "", userEmail |-> ""]
    /\ lastResponse' = NoResponse
    /\ UNCHANGED <<href, nonAuthVars>>

\* a route change: the views are behind the token, the login page is not
navigate(path) ==
    /\ path \in Views => token # ""
    /\ href' = path
    /\ lastResponse' = NoResponse
    /\ UNCHANGED <<localStorage, token, userEmail, nonAuthVars>>

\* fetchWithAuth gets the response of a request of the view on screen; the
\* assignment to window.location.href loads the page anew, and the
\* AuthProvider starts from what localStorage holds
fetchWithAuth(status) ==
    /\ href \in Views
    /\ token # ""
    /\ IF status = 401
       THEN /\ localStorage' = [localStorage EXCEPT !.token = ""]
            /\ href' = "/login"
            /\ token' = ""
            /\ userEmail' = localStorage.userEmail
            /\ lastResponse' = [view |-> href, status |-> status, outcome |-> "thrown"]
       ELSE /\ lastResponse' = [view |-> href, status |-> status, outcome |-> "returned"]
            /\ UNCHANGED <<localStorage, token, userEmail, href>>
    /\ UNCHANGED nonAuthVars

\* src/pages/Billing.tsx: fetch(url, { headers }) hands every response to
\* fetchAllData, which goes on to read its body
plainFetch(status) ==
    /\ href = "/billing"
    /\ token # ""
    /\ lastResponse' = [view |-> href, status |-> status, outcome |-> "returned"]
    /\ UNCHANGED <<localStorage, token, userEmail, href, nonAuthVars>>

\* -------------------------------------------------------------- Dashboard
\* src/unnamed/part_003:13-49.  A collection is known by the run of
\* fetchData that put it there and by what was put: the parsed list
\* ("data"), or the parsed body of an error response ("error"); run 0 is
\* the empty list of useState([]).
Collections == {"invoices", "stockItems", "customers", "recipes"}
ReadOrder == <<"invoices", "stockItems", "customers", "recipes">>
InitialDashboard ==
    [invoices |-> [run |-> 0, kind |-> "data"], stockItems |-> [run |-> 0, kind |-> "data"],
     customers |-> [run |-> 0, kind |-> "data"], recipes |-> [run |-> 0, kind |-> "data"],
     loading |-> TRUE]
\* how a request ends: "ok" (a 2xx with the list), "error" (another status
\* with a JSON body), "garbled" (a body that is not JSON), "rejected" (the
\* fetch itself fails)
Outcomes == {"ok", "error", "garbled", "rejected"}

\* the effect: setLoading(true) and the four requests of Promise.all
fetchData ==
    /\ dashPc = "idle"
    /\ dashRun < MaxFetches
    /\ dashRun' = dashRun + 1
    /\ dashboard' = [dashboard EXCEPT !.loading = TRUE]
    /\ dashResponses' = [e \in Collections |-> "pending"]
    /\ dashPc' = "all"
    /\ UNCHANGED nonDashboardVars

\* one request settles.  Promise.all rejects with the first rejection, and
\* the catch and the finally run; it resolves when the fourth response is in
respond(e, outcome) ==
    /\ dashPc = "all"
    /\ dashResponses[e] = "pending"
    /\ dashResponses' = [dashResponses EXCEPT ![e] = outcome]
    /\ IF outcome = "rejected"
       THEN /\ dashPc' = "idle"
            /\ dashboard' = [dashboard EXCEPT !.loading = FALSE]
       ELSE /\ dashPc' = IF \A x \in Collections \ {e} : dashResponses[x] # "pending"
                         THEN ReadOrder[1] ELSE "all"
            /\ UNCHANGED dashboard
    /\ UNCHANGED <<dashRun, nonDashboardVars>>

\* the read that follows that of e in the code, "idle" after the last
AfterRead(e) ==
    LET k == CHOOSE i \in 1..Len(ReadOrder) : ReadOrder[i] = e
    IN  IF k = Len(ReadOrder) THEN "idle" ELSE ReadOrder[k + 1]

\* setX(await xRes.json()) for collection e, in the order of the code: a
\* body that does not parse throws to the catch, a parsed body is stored
\* whatever the status, and after the last the finally runs
settle(e) ==
    /\ dashPc = e
    /\ IF dashResponses[e] = "garbled"
       THEN /\ dashPc' = "idle"
            /\ dashboard' = [dashboard EXCEPT !.loading = FALSE]
       ELSE /\ dashPc' = AfterRead(e)
            /\ dashboard' =
                   [dashboard EXCEPT
                       ![e] = [run |-> dashRun,
                               kind |-> IF dashResponses[e] = "ok" THEN "data" ELSE "error"],
                       !.loading = IF AfterRead(e) = "idle" THEN FALSE ELSE @]
    /\ UNCHANGED <<dashResponses, dashRun, nonDashboardVars>>

\* ---------------------------------------------------------- specifications
\* The user leaves the form alone while a save is in flight: the modal
\* closes when handleSaveInvoice finishes, whatever the outcome, and takes
\* such edits with it.
Quiet == ~sending

SelectProduct ==
    \E index \in 1..Len(formData.items) : \E value \in ProductOptions(index) :
        handleItemChange(index, "productId", value)
RemoveSomeItem == \E index \in 1..Len(formData.items) : removeItem(index)
SelectCustomer == \E k \in 1..Len(Customers) : handleCustomerSelect(Customers[k])
TypeCustomerName == \E value \in NameInputs : handleCustomerNameChange(value)
TypeCustomerPhone == \E value \in PhoneInputs : handleCustomerPhoneChange(value)
TypeAmountPaid == \E value \in AmountInputs : handleInputChange(value)
TypeField ==
    \E index \in 1..Len(formData.items), field \in {"quantity", "price"} :
        \E value \in FieldInputs(field) : handleItemChange(index, field, value)
ToggleGstType == \E t \in {"with_gst", "without_gst"} : handleGstTypeChange(t)
OpenView == \E i \in 1..Len(invoices) : handleView(i)
OpenEdit == \E i \in 1..Len(invoices) : handleOpenEditModal(i)
Refetched == \E c \in Catalogues : refetchDone(c)
Fetched == \E c \in Catalogues : fetchAllData(c)

\* no recipe on screen
RecipeIdle ==
    /\ recipes = << >>
    /\ stockItems = StockFull
    /\ selectedRecipe = emptyRecipe
    /\ recipeFormData = emptyRecipe
    /\ ingredientRef = << >>

\* the Recipe Management page not visited
RecipeManagementIdle ==
    /\ recipeStore = << >>
    /\ isFormModalOpen = FALSE
    /\ recipeAlert = FALSE
    /\ recipePc = "idle"
    /\ recipeReq = NoRecipeRequest

\* the Stock Management page not visited
StockIdle ==
    /\ stockStore = << >>
    /\ stock = << >>
    /\ selectedItem = NullItem
    /\ isAdjustModalOpen = FALSE
    /\ stockPc = "idle"
    /\ stockReq = NoStockRequest
    /\ adjustForm = BlankAdjustForm
    /\ isStockFormModalOpen = FALSE
    /\ stockForm = NoStockForm
    /\ stockLoading = TRUE
    /\ statusFilter = "all"
    /\ stockTotal = 0
    /\ stockFetches = << >>
    /\ lastRequest = NoListRequest

\* the Customers page not visited, at midnight of the first of December of
\* the year before MaxYear
FirstMidnight ==
    [year |-> MaxYear - 1, doy |-> DaysBeforeMonth(MaxYear - 1, 12) + 1, ms |-> 0]
CustomersIdle ==
    /\ clock = FirstMidnight
    /\ customers = << >>
    /\ currentMonthEvents = << >>
    /\ dashboardCustomers = << >>
    /\ upcomingBirthdays = 0

\* signed in, no request answered yet
AuthIdle ==
    /\ localStorage = [token |-> "t1", userEmail |-> "a@shop"]
    /\ token = "t1"
    /\ userEmail = "a@shop"
    /\ href = "/"
    /\ lastResponse = NoResponse

\* the Dashboard not visited
DashboardIdle ==
    /\ dashboard = InitialDashboard
    /\ dashResponses = [e \in Collections |-> "pending"]
    /\ dashPc = "idle"
    /\ dashRun = 0

\* none of the other pages visited
OtherIdle ==
    /\ DashboardIdle
    /\ RecipeManagementIdle
    /\ StockIdle
    /\ CustomersIdle
    /\ AuthIdle
    /\ DashboardIdle

\* the list's first page, with the total of the list on screen and no
\* filter set
PagingInit ==
    /\ searchTerm = << >>
    /\ invoiceStatusFilter = "all"
    /\ typeFilter = "all"
    /\ page = 1
    /\ billingTotal = Len(invoices)
    /\ billingRequest = IF invoices = << >> THEN NoPageRequest ELSE PageRequest(1)

\* no invoice on screen
BillingIdle ==
    /\ store = << >>
    /\ invoices = << >>
    /\ products = CatalogueA
    /\ isModalOpen = FALSE
    /\ modalMode = "null"
    /\ editingInvoice = NullInvoice
    /\ formData = InitialFormData(NullInvoice)
    /\ customerDetails = InitialCustomerDetails
    /\ gstType = "with_gst"
    /\ alert = ""
    /\ savePc = "idle"
    /\ saveReq = NoRequest
    /\ PagingInit

\* Spec: the Billing page with its modal form and the backend's collection.
Init ==
    /\ store = << >>
    /\ invoices = << >>
    /\ products = CatalogueA
    /\ isModalOpen = FALSE
    /\ modalMode = "null"
    /\ editingInvoice = NullInvoice
    /\ formData = InitialFormData(NullInvoice)
    /\ customerDetails = InitialCustomerDetails
    /\ gstType = "with_gst"
    /\ alert = ""
    /\ savePc = "idle"
    /\ saveReq = NoRequest
    /\ PagingInit
    /\ RecipeIdle
    /\ OtherIdle

Next ==
    \/ Quiet /\ SelectProduct
    \/ Quiet /\ Len(formData.items) < MaxLines /\ addItem
    \/ Quiet /\ RemoveSomeItem
    \/ Quiet /\ SelectCustomer
    \/ Quiet /\ handleCustomerSearchChange
    \/ handleSubmit
    \/ dismissAlert
    \/ OpenView
    \/ handleOpenCreateModal
    \/ OpenEdit
    \/ Quiet /\ closeModal
    \/ saveResponseOk
    \/ saveResponseError
    \/ Refetched
    \/ Fetched

Spec == Init /\ [][Next]_vars

\* SpecSave: the Billing page with both outcomes of the save and of the
\* refetch that follows it; every fetch returns the same catalogue.
NextSave ==
    \/ Quiet /\ SelectProduct
    \/ Quiet /\ Len(formData.items) < MaxLines /\ addItem
    \/ Quiet /\ RemoveSomeItem
    \/ Quiet /\ SelectCustomer
    \/ Quiet /\ handleCustomerSearchChange
    \/ handleSubmit
    \/ dismissAlert
    \/ OpenView
    \/ handleOpenCreateModal
    \/ OpenEdit
    \/ Quiet /\ closeModal
    \/ saveResponseOk
    \/ saveResponseError
    \/ refetchDone(products)
    \/ refetchFailed
    \/ fetchAllData(products)

SpecSave == Init /\ [][NextSave]_vars

\* SpecForm: one invoice form, opened from the Create Invoice button, with
\* every input of the form in use; the catalogue may be refetched under it.
InitForm ==
    /\ store = << >>
    /\ invoices = << >>
    /\ products = CatalogueA
    /\ isModalOpen = TRUE
    /\ modalMode = "create"
    /\ editingInvoice = newInvoiceTemplate
    /\ formData = InitialFormData(newInvoiceTemplate)
    /\ customerDetails = InitialCustomerDetails
    /\ gstType = "with_gst"
    /\ alert = ""
    /\ savePc = "idle"
    /\ saveReq = NoRequest
    /\ PagingInit
    /\ RecipeIdle
    /\ OtherIdle

NextForm ==
    \/ Quiet /\ SelectProduct
    \/ Quiet /\ TypeField
    \/ Quiet /\ Len(formData.items) < MaxItems /\ addItem
    \/ Quiet /\ RemoveSomeItem
    \/ Quiet /\ SelectCustomer
    \/ Quiet /\ handleCustomerSearchChange
    \/ Quiet /\ TypeCustomerName
    \/ Quiet /\ TypeCustomerPhone
    \/ handleSubmit
    \/ dismissAlert
    \/ Fetched

SpecForm == InitForm /\ [][NextForm]_vars


\* SpecLines: a new invoice's item lines being edited: lines added and
\* removed, products picked, the four numeric inputs typed into (negative
\* numbers and a discount above 100 included), the GST type switched.
LineInputs(field) ==
    CASE field = "quantity" -> {-5, 2}
      [] field = "price" -> {-50}
      [] field = "discount" -> {-10, 100, 150}
      [] field = "gst" -> {-12, 12}
TypeLine ==
    \E index \in 1..Len(formData.items), field \in {"quantity", "price", "discount", "gst"} :
        \E value \in LineInputs(field) : handleItemChange(index, field, value)

NextLines ==
    \/ Len(formData.items) < MaxItems /\ addItem
    \/ SelectProduct
    \/ TypeLine
    \/ RemoveSomeItem
    \/ ToggleGstType

SpecLines == InitForm /\ [][NextLines]_vars

\* SpecPaging: the Billing list over a backend holding MaxStored invoices,
\* one more than a page: the pagination buttons, deletes of the invoices on
\* screen, and the fetches that follow them.  While a fetch for the page is
\* awaited the page shows "Loading Invoices..." and no button.
StoredInvoice(n) ==
    [newInvoiceTemplate EXCEPT !.id = InvoiceIdAt(n), !._id = InvoiceIdAt(n),
                               !.customerId = "c1", !.customerName = "Asha"]
ListShown == savePc = "idle" /\ billingRequest = PageRequest(page)

InitPaging ==
    /\ store = [n \in 1..MaxStored |-> StoredInvoice(n)]
    /\ invoices = << >>
    /\ products = CatalogueA
    /\ isModalOpen = FALSE
    /\ modalMode = "null"
    /\ editingInvoice = NullInvoice
    /\ formData = InitialFormData(NullInvoice)
    /\ customerDetails = InitialCustomerDetails
    /\ gstType = "with_gst"
    /\ alert = ""
    /\ savePc = "idle"
    /\ saveReq = NoRequest
    /\ PagingInit
    /\ RecipeIdle
    /\ OtherIdle

NextPaging ==
    \/ fetchAllData(products)
    \/ ListShown /\ canPrev /\ setPage(page - 1)
    \/ ListShown /\ canNext /\ setPage(page + 1)
    \/ ListShown /\ \E p \in 1..totalPages : p # page /\ setPage(p)
    \/ ListShown /\ \E i \in 1..Len(invoices) : handleDeleteInvoice(i)

SpecPaging == InitPaging /\ [][NextPaging]_vars

\* SpecTotals: the form opened for editing on an invoice the list endpoint
\* returned.  The stored lines are drawn from two families: lines whose
\* fields are all numbers, and lines with blank ('') or missing fields.
SeqsUpTo(S, n) == UNION {[1..k -> S] : k \in 0..n}

NumericItems ==
    [productId : {"p1"}, productName : {"Croissant"}, quantity : {1, 2},
     price : {100}, discount : {0, 10, 100, 150}, gst : {0, 18}]
SparseItems ==
    [productId : {"p1"}, productName : {"Croissant"}, quantity : {Blank, 2},
     price : {Blank, 100}, discount : {Blank, Undef, 10}, gst : {Undef, 18}]

LoadedInvoices ==
    {[newInvoiceTemplate EXCEPT !.id = InvoiceIdAt(1), !._id = InvoiceIdAt(1), !.customerId = "c1",
                                !.customerName = "Asha", !.items = items,
                                !.paymentStatus = status, !.amountPaid = Undef] :
        items \in SeqsUpTo(NumericItems, MaxLen) \cup SeqsUpTo(SparseItems, MaxLen),
        status \in {"Pending", "Overdue"}}

InitTotals ==
    \E inv \in LoadedInvoices :
        /\ store = <<inv>>
        /\ invoices = <<inv>>
        /\ products = CatalogueA
        /\ isModalOpen = TRUE
        /\ modalMode = "edit"
        /\ editingInvoice = inv
        /\ formData = InitialFormData(inv)
        /\ customerDetails = InitialCustomerDetails
        /\ gstType = "with_gst"
        /\ alert = ""
        /\ savePc = "idle"
        /\ saveReq = NoRequest
        /\ PagingInit
        /\ RecipeIdle
        /\ OtherIdle
    /\ OtherIdle

NextTotals ==
    \/ Quiet /\ TypeAmountPaid
    \/ handleSubmit
    \/ dismissAlert

SpecTotals == InitTotals /\ [][NextTotals]_vars

\* SpecRecipe: a recipe form opened on a recipe of the list, the stock
\* catalogue being refetched under it.
Ingredients == [stockItemId : {"s1", "s2"}, quantity : {2}]
\* the recipes drawn as stored list a stock item once; the form may repeat one
OncePerItem(ingredients) ==
    \A i, j \in 1..Len(ingredients) :
        ingredients[i].stockItemId = ingredients[j].stockItemId => i = j
Recipes ==
    [id : {"r1"}, name : {"Tart"},
     ingredients : {l \in SeqsUpTo(Ingredients, MaxLen) : OncePerItem(l)},
     sellingPrice : {200 * Mil}]

InitRecipe ==
    /\ BillingIdle
    /\ OtherIdle
    /\ stockItems = StockFull
    /\ selectedRecipe \in Recipes
    /\ recipes = <<selectedRecipe>>
    /\ recipeFormData = selectedRecipe
    /\ ingredientRef = [i \in 1..Len(selectedRecipe.ingredients) |-> i]

NextRecipe ==
    \/ addIngredient
    \/ \E index \in 1..Len(recipeFormData.ingredients) :
          \E value \in {""} \cup {stockItems[k].id : k \in 1..Len(stockItems)} :
              handleIngredientChange(index, "stockItemId", value)
    \/ \E index \in 1..Len(recipeFormData.ingredients) :
          \E value \in IngredientQuantityInputs :
              handleIngredientChange(index, "quantity", value)
    \/ \E index \in 1..Len(recipeFormData.ingredients) : removeIngredient(index)
    \/ \E catalogue \in StockCatalogues : setStockItems(catalogue)

SpecRecipe == InitRecipe /\ [][NextRecipe]_vars

\* SpecCalc: the Cost & Profit Calculator page.
StockFractional ==
    << [id |-> "s1", costPerUnit |-> 3333], [id |-> "s2", costPerUnit |-> 2001] >>
CalcCatalogues == StockCatalogues \cup {StockFractional}
CalcIngredients ==
    {[stockItemId |-> "s1", quantity |-> 2], [stockItemId |-> "s2", quantity |-> 5]}
CalcRecipes(id) ==
    [id : {id}, name : {"Tart"}, ingredients : SeqsUpTo(CalcIngredients, MaxLen),
     sellingPrice : {0, 100 * Mil, 200 * Mil}]
OtherRecipe ==
    [id |-> "r2", name |-> "Eclair",
     ingredients |-> << [stockItemId |-> "s2", quantity |-> 5] >>, sellingPrice |-> 100 * Mil]
RecipeLists ==
    {<< >>} \cup {<<a>> : a \in CalcRecipes("r1")}
            \cup {<<a, OtherRecipe>> : a \in CalcRecipes("r1")}

InitCalc ==
    /\ BillingIdle
    /\ OtherIdle
    /\ recipes = << >>
    /\ stockItems = << >>
    /\ selectedRecipe = NullRecipe
    /\ recipeFormData = emptyRecipe
    /\ ingredientRef = << >>

NextCalc ==
    \/ \E list \in RecipeLists, catalogue \in CalcCatalogues : calcFetched(list, catalogue)
    \/ \E k \in 1..Len(recipes) : selectRecipe(k)
    \/ \E catalogue \in CalcCatalogues : handleRecalculateAll(catalogue)

SpecCalc == InitCalc /\ [][NextCalc]_vars

\* SpecManage: the Recipe Management page from its mount, with the backend's
\* recipe collection.  The user waits for a response before acting again.
StoredRecipes ==
    {<< >>,
     << [_id |-> "r1", name |-> "Tart",
         ingredients |-> << [stockItemId |-> "s2", quantity |-> 2] >>,
         sellingPrice |-> 200 * Mil] >>}
FetchedStock == {StockFull, StockWithoutS2}
StockOptions == {""} \cup {stockItems[j].id : j \in 1..Len(stockItems)}
RecipeInputs == {<<"name", "">>, <<"name", "Flan">>, <<"sellingPrice", 200 * Mil>>}
RecipeQuiet == recipePc = "idle" /\ ~recipeAlert
FormOpen == RecipeQuiet /\ isFormModalOpen

InitManage ==
    /\ BillingIdle
    /\ recipeStore \in StoredRecipes
    /\ recipes = << >>
    /\ stockItems = << >>
    /\ selectedRecipe = NullRecipe
    /\ recipeFormData = emptyRecipe
    /\ ingredientRef = << >>
    /\ isFormModalOpen = FALSE
    /\ recipeAlert = FALSE
    /\ recipePc = "fetching"
    /\ recipeReq = NoRecipeRequest
    /\ StockIdle
    /\ CustomersIdle
    /\ AuthIdle
    /\ DashboardIdle

NextManage ==
    \/ \E stockData \in FetchedStock : fetchAll(stockData)
    \/ fetchAllFailed
    \/ RecipeQuiet /\ ~isFormModalOpen /\ Len(recipeStore) < MaxRecipes /\ openCreateRecipe
    \/ RecipeQuiet /\ ~isFormModalOpen /\ \E k \in 1..Len(recipes) : openEditRecipe(k)
    \/ FormOpen /\ closeRecipeModal
    \/ FormOpen /\ \E in \in RecipeInputs : RecipeForm_handleInputChange(in[1], in[2])
    \/ FormOpen /\ Len(recipeFormData.ingredients) < MaxLines /\ addIngredient
    \/ FormOpen /\ \E index \in 1..MaxIngredients, id \in StockOptions :
           handleIngredientChange(index, "stockItemId", id)
    \/ FormOpen /\ \E index \in 1..MaxIngredients, q \in IngredientQuantityInputs :
           handleIngredientChange(index, "quantity", q)
    \/ FormOpen /\ \E index \in 1..MaxIngredients : removeIngredient(index)
    \/ RecipeQuiet /\ RecipeForm_handleSubmit
    \/ dismissRecipeAlert
    \/ saveRecipeOk
    \/ saveRecipeFailed

SpecManage == InitManage /\ [][NextManage]_vars

\* SpecStock: the Stock Management page from its mount, with the backend's
\* stock collection (fewer than PAGE_SIZE items, so one page shows them all).
StockQuantities == {-1, 0, 5}
StockThresholds == {-2, 5}
StockDocs(n) ==
    [_id : {<<"s1", "s2", "s3">>[n]}, quantity : StockQuantities,
     lowStockThreshold : StockThresholds]
StoredStock ==
    UNION {{l \in [1..n -> UNION {StockDocs(k) : k \in 1..n}] :
                \A k \in 1..n : l[k]._id = <<"s1", "s2", "s3">>[k]} : n \in 0..MaxLen}
QuantityAddedInputs == {3}
CostPerUnitInputs == {40}
\* the purchase in the form keeps the stored quantity within MaxQuantity
PurchaseFits ==
    \A k \in 1..Len(stockStore) :
        stockStore[k]._id = selectedItem.id
            => stockStore[k].quantity + ToNumber(adjustForm.quantityAdded) <= MaxQuantity
StockQuiet == stockPc = "idle"

InitStock ==
    /\ BillingIdle
    /\ RecipeIdle
    /\ RecipeManagementIdle
    /\ stockStore \in StoredStock
    /\ stock = << >>
    /\ selectedItem = NullItem
    /\ isAdjustModalOpen = FALSE
    /\ stockPc = "fetching"
    /\ stockReq = NoStockRequest
    /\ adjustForm = BlankAdjustForm
    /\ isStockFormModalOpen = FALSE
    /\ stockForm = NoStockForm
    /\ stockLoading = TRUE
    /\ statusFilter = "all"
    /\ stockTotal = 0
    /\ stockFetches = << >>
    /\ lastRequest = params("all")
    /\ CustomersIdle
    /\ AuthIdle
    /\ DashboardIdle

NextStock ==
    \/ fetchStock
    \/ fetchStockFailed
    \/ StockQuiet /\ ~isAdjustModalOpen /\ \E k \in 1..Len(stock) : handleOpenAdjustModal(k)
    \/ StockQuiet /\ isAdjustModalOpen /\ closeAdjustModal
    \/ StockQuiet /\ \E value \in QuantityAddedInputs : setQuantityAdded(value)
    \/ StockQuiet /\ \E value \in CostPerUnitInputs : setCostPerUnit(value)
    \/ StockQuiet /\ PurchaseFits /\ AdjustStockForm_handleSubmit
    \/ adjustStockOk
    \/ adjustStockFailed
    \/ StockQuiet /\ ~isAdjustModalOpen /\ \E k \in 1..Len(stock) : handleDeleteItem(k)
    \/ deleteItemOk
    \/ deleteItemFailed

SpecStock == InitStock /\ [][NextStock]_vars

\* SpecStockForms: the Stock Management page with its two forms, the
\* purchase form and the create / edit form; the backend holds no item or
\* one item of quantity 5, and up to MaxLen items once the user has created
\* some; every fetch of the list succeeds.
StoredItems ==
    {l \in StoredStock :
        /\ Len(l) <= 1
        /\ \A k \in 1..Len(l) : l[k].quantity = 5 /\ l[k].lowStockThreshold = 5}
PurchaseQuantityInputs == {-1, 0, 3}
PurchaseCostInputs == {-1, 0, 40}
StockNameInputs == {"", "Sugar"}
ThresholdInputs == {Blank, -1, 2}
NewQuantityInputs == {4}
NoModalOpen == ~isAdjustModalOpen /\ ~isStockFormModalOpen

InitStockForms ==
    /\ InitStock
    /\ stockStore \in StoredItems

NextStockForms ==
    \/ fetchStock
    \/ StockQuiet /\ NoModalOpen /\ \E k \in 1..Len(stock) : handleOpenAdjustModal(k)
    \/ StockQuiet /\ isAdjustModalOpen /\ closeAdjustModal
    \/ StockQuiet /\ \E value \in PurchaseQuantityInputs : setQuantityAdded(value)
    \/ StockQuiet /\ \E value \in PurchaseCostInputs : setCostPerUnit(value)
    \/ StockQuiet /\ PurchaseFits /\ AdjustStockForm_handleSubmit
    \/ adjustStockOk
    \/ adjustStockFailed
    \/ StockQuiet /\ NoModalOpen
           /\ \E k \in 1..Len(stock) : StockManagement_handleOpenEditModal(k)
    \/ StockQuiet /\ NoModalOpen /\ Len(stockStore) < MaxLen
           /\ StockManagement_handleOpenCreateModal
    \/ StockQuiet /\ isStockFormModalOpen /\ closeStockForm
    \/ StockQuiet /\ \E value \in StockNameInputs : StockForm_handleChange("name", value)
    \/ StockQuiet /\ \E value \in ThresholdInputs :
           StockForm_handleChange("lowStockThreshold", value)
    \/ StockQuiet /\ \E value \in NewQuantityInputs : StockForm_handleChange("quantity", value)
    \/ StockQuiet /\ StockForm_handleSubmit
    \/ saveStockOk
    \/ saveStockFailed

SpecStockForms == InitStockForms /\ [][NextStockForms]_vars

\* SpecStockList: the Stock Management page with its status filter and its
\* purchase form, over a backend that holds one item low on stock and one in
\* stock; every request succeeds, and the responses arrive in any order.
\* While stockLoading is set the page shows "Loading Stock..." and nothing else.
ListedStock ==
    << [_id |-> "s1", quantity |-> 5, lowStockThreshold |-> 5],
       [_id |-> "s2", quantity |-> 5, lowStockThreshold |-> -2] >>
StatusFilters == {"all", "Low Stock", "In Stock"}

InitStockList ==
    /\ InitStock
    /\ stockStore = ListedStock

NextStockList ==
    \/ fetchStock
    \/ ~stockLoading /\ StockQuiet /\ NoModalOpen /\ \E k \in 1..Len(stock) : handleOpenAdjustModal(k)
    \/ ~stockLoading /\ isAdjustModalOpen /\ closeAdjustModal
    \/ ~stockLoading /\ StockQuiet /\ \E value \in QuantityAddedInputs : setQuantityAdded(value)
    \/ ~stockLoading /\ StockQuiet /\ \E value \in CostPerUnitInputs : setCostPerUnit(value)
    \/ ~stockLoading /\ StockQuiet /\ PurchaseFits /\ AdjustStockForm_handleSubmit
    \/ adjustStockOk
    \/ ~stockLoading /\ NoModalOpen /\ Len(stockFetches) < MaxFetches
           /\ \E value \in StatusFilters : setStatusFilter(value)
    \/ \E i \in 1..Len(stockFetches) : fetchStockResponse(i)

SpecStockList == InitStockList /\ [][NextStockList]_vars

\* SpecCustomers: the Customers page under a running clock, from
\* FirstMidnight to the end of MaxYear.
StoredCustomers ==
    {[name |-> "Asha", birthday |-> [year |-> 2000, month |-> 2, day |-> 29],
      anniversary |-> NoDate],
     [name |-> "Ravi", birthday |-> [year |-> 1985, month |-> 12, day |-> 31],
      anniversary |-> [year |-> 2010, month |-> 6, day |-> 15]],
     [name |-> "Mina", birthday |-> NoDate,
      anniversary |-> [year |-> 2015, month |-> 1, day |-> 1]]}
NextDay(date) ==
    IF date.doy = DaysInYear(date.year) THEN [date EXCEPT !.year = @ + 1, !.doy = 1]
    ELSE [date EXCEPT !.doy = @ + 1]
LaterMoments ==
    {[clock EXCEPT !.ms = 1]} \cup {[NextDay(clock) EXCEPT !.ms = t] : t \in {0, 1}}

InitCustomers ==
    /\ BillingIdle
    /\ RecipeIdle
    /\ RecipeManagementIdle
    /\ StockIdle
    /\ CustomersIdle
    /\ AuthIdle
    /\ DashboardIdle

NextCustomers ==
    \/ \E list \in SeqsUpTo(StoredCustomers, MaxLen) : customersFetched(list)
    \/ \E next \in LaterMoments : next.year <= MaxYear /\ advanceClock(next)

SpecCustomers == InitCustomers /\ [][NextCustomers]_vars

\* SpecBirthdays: the Dashboard receiving its customer list, on a day of
\* the last days of December, the first of January or the end of February,
\* at midnight or later in the day.
BirthdayCustomers ==
    {[name |-> "Asha", birthday |-> [year |-> 2000, month |-> 2, day |-> 29]],
     [name |-> "Ravi", birthday |-> [year |-> 1985, month |-> 12, day |-> 31]],
     [name |-> "Mina", birthday |-> [year |-> 1990, month |-> 1, day |-> 2]],
     [name |-> "Tara", birthday |-> NoDate]}
DashboardDays ==
    {NewDate(MaxYear - 1, 12, d) : d \in 22..31}
        \cup {NewDate(MaxYear, 1, d) : d \in 1..3}
        \cup {NewDate(MaxYear, 2, d) : d \in 20..28}
DashboardMoments == {[day EXCEPT !.ms = t] : day \in DashboardDays, t \in {0, 1}}

InitBirthdays ==
    /\ BillingIdle
    /\ RecipeIdle
    /\ RecipeManagementIdle
    /\ StockIdle
    /\ AuthIdle
    /\ DashboardIdle
    /\ clock \in DashboardMoments
    /\ customers = << >>
    /\ currentMonthEvents = << >>
    /\ dashboardCustomers = << >>
    /\ upcomingBirthdays = 0

NextBirthdays ==
    \E list \in SeqsUpTo(BirthdayCustomers, MaxLen) : Dashboard_setCustomers(list)

SpecBirthdays == InitBirthdays /\ [][NextBirthdays]_vars

\* SpecAuth: signing in and out, moving between the views, and the answers
\* to the requests the views issue.
Emails == {"a@shop", "b@shop"}
Tokens == {"t1", "t2"}
Statuses == {200, 401, 403, 404, 500}

InitAuth ==
    /\ BillingIdle
    /\ RecipeIdle
    /\ RecipeManagementIdle
    /\ StockIdle
    /\ CustomersIdle
    /\ localStorage \in [token : {""} \cup Tokens, userEmail : {""} \cup Emails]
    /\ (localStorage.token = "") = (localStorage.userEmail = "")
    /\ token = localStorage.token
    /\ userEmail = localStorage.userEmail
    /\ href = IF token = "" THEN "/login" ELSE "/"
    /\ lastResponse = NoResponse
    /\ DashboardIdle

NextAuth ==
    \/ \E email \in Emails, access_token \in Tokens : login(email, access_token)
    \/ loginFailed
    \/ logout
    \/ \E path \in Views \cup {"/login"} : navigate(path)
    \/ \E status \in Statuses : fetchWithAuth(status)
    \/ \E status \in Statuses : plainFetch(status)

SpecAuth == InitAuth /\ [][NextAuth]_vars

\* SpecDashboard: the Dashboard's fetchData, started by the effect, its four
\* requests answered in any order and in any way.
InitDashboard ==
    /\ BillingIdle
    /\ RecipeIdle
    /\ RecipeManagementIdle
    /\ StockIdle
    /\ CustomersIdle
    /\ AuthIdle
    /\ DashboardIdle

NextDashboard ==
    \/ fetchData
    \/ \E e \in Collections, outcome \in Outcomes : respond(e, outcome)
    \/ \E e \in Collections : settle(e)

SpecDashboard == InitDashboard /\ [][NextDashboard]_vars

\* ------------------------------------------------------------------ claims
RECURSIVE SumFn(_, _)
SumFn(f, n) == IF n = 0 THEN 0 ELSE f[n] + SumFn(f, n - 1)
Sigma(f) == SumFn(f, Len(f))

AllNumbers(items) ==
    \A i \in 1..Len(items) :
        /\ items[i].quantity >= 0 /\ items[i].price >= 0
        /\ items[i].discount >= 0 /\ items[i].gst >= 0

\* C1: for every item list of non-negative numbers the form's grandTotal is
\* sum(q*p) - sum(q*p*d/100) + sum(q*p*(1 - d/100)*g/100), each line's gst
\* taken on that line's own after-discount amount.
C1_GrandTotalPerLine ==
    (isModalOpen /\ AllNumbers(formData.items)) =>
        LET it == formData.items
            gross == [i \in 1..Len(it) |-> it[i].quantity * it[i].price]
            disc == [i \in 1..Len(it) |-> it[i].quantity * it[i].price * it[i].discount]
            tax == [i \in 1..Len(it) |->
                      it[i].quantity * it[i].price * (100 - it[i].discount) * it[i].gst]
        IN  totals(formData).grandTotal =
                Sigma(gross) * Scale - Sigma(disc) * (Scale \div 100)
                    + Sigma(tax) * (Scale \div 10000)

\* two lines with different discount and gst percentages, and the spec's
\* example line (2 x 100, 10 % off, 18 % gst: 212.40), at save time
C1_Witness ==
    /\ savePc = "saving"
    /\ isModalOpen /\ Len(formData.items) = 2 /\ AllNumbers(formData.items)
    /\ formData.items[1] = [productId |-> "p1", productName |-> "Croissant", quantity |-> 2,
                            price |-> 100, discount |-> 10, gst |-> 18]
    /\ formData.items[2].discount = 100 /\ formData.items[2].gst = 0
    /\ totals(formData).grandTotal = (2124 * Scale) \div 10



AmountOrZero(a) == IF a \in {Blank, Undef} THEN 0 ELSE a

\* C2: in every form state balanceDue = grandTotal - amountPaid, a blank
\* amountPaid counting as 0; the Balance Due figure is red exactly when
\* balanceDue > 0 and unstyled exactly when balanceDue <= 0.
C2_BalanceDue ==
    isModalOpen =>
        /\ totals(formData).balanceDue =
               totals(formData).grandTotal - AmountOrZero(formData.amountPaid) * Scale
        /\ (balanceDueClass(formData) = "text-red-500") <=> (totals(formData).balanceDue > 0)
        /\ (balanceDueClass(formData) = "") <=> (totals(formData).balanceDue <= 0)

\* an overpaid invoice, and one settled to the paisa, are not red
C2_Witness ==
    /\ isModalOpen /\ formData.amountPaid = 200
    /\ totals(formData).grandTotal = 200 * Scale
    /\ totals(formData).balanceDue = 0
    /\ balanceDueClass(formData) = ""

\* C3: the status sent at save is Paid exactly when amountPaid >= grandTotal
\* and grandTotal > 0, Pending otherwise, and never Overdue, whatever the
\* status the invoice was loaded with.
C3_PaymentStatus ==
    savePc = "saving" =>
        LET paid == /\ AmountOrZero(formData.amountPaid) * Scale >= totals(formData).grandTotal
                    /\ totals(formData).grandTotal > 0
        IN  /\ paid => saveReq.paymentStatus = "Paid"
            /\ ~paid => saveReq.paymentStatus = "Pending"
            /\ saveReq.paymentStatus # "Overdue"

\* an invoice loaded as Overdue is saved with nothing paid and a zero total
C3_Witness ==
    /\ savePc = "saving"
    /\ editingInvoice.paymentStatus = "Overdue"
    /\ formData.amountPaid = Blank
    /\ totals(formData).grandTotal = 0
    /\ saveReq.paymentStatus = "Pending"

ZeroFilledItem(item) ==
    [item EXCEPT !.quantity = AmountOrZero(@), !.price = AmountOrZero(@),
                 !.discount = AmountOrZero(@), !.gst = AmountOrZero(@)]
ZeroFilled(fd) ==
    [fd EXCEPT !.items = [i \in 1..Len(@) |-> ZeroFilledItem(@[i])],
               !.amountPaid = AmountOrZero(@)]

\* C6: a missing or blank quantity, price, discount, gst or amountPaid counts
\* as 0 in the totals: the form's totals and the subtotal and total that
\* handleSaveInvoice computes for the request are numbers, equal to the
\* totals of the same invoice with every such field replaced by 0.
C6_BlankCountsAsZero ==
    /\ isModalOpen => totals(formData) = totals(ZeroFilled(formData))
    /\ savePc = "saving" =>
          /\ saveReq.subtotal # NaN /\ saveReq.total # NaN
          /\ saveReq.subtotal = totals(ZeroFilled(formData)).subtotal
          /\ saveReq.total = totals(ZeroFilled(formData)).grandTotal

\* C7: the flat percentages sent at save are totalDiscount/subtotal*100 when
\* subtotal > 0, else 0, and totalGst/(subtotal - totalDiscount)*100 when that
\* base is > 0, else 0; no division by zero happens; the totals do not depend
\* on the flat percentages the invoice carries.
C7_EffectivePercentages ==
    /\ savePc = "saving" =>
          LET t == totals(formData)
          IN  /\ saveReq.discount.den # 0 /\ saveReq.gst.den # 0
              /\ saveReq.discount =
                     IF t.subtotal > 0 THEN Ratio(t.discountAmount * 100, t.subtotal) ELSE Zero
              /\ saveReq.gst =
                     IF t.subtotal - t.discountAmount > 0
                     THEN Ratio(t.gstAmount * 100, t.subtotal - t.discountAmount) ELSE Zero
    /\ isModalOpen =>
          \A d, g \in {Zero, Ratio(50, 1)} :
              /\ totals([formData EXCEPT !.discount = d, !.gst = g]) = totals(formData)
              /\ calculateInvoiceTotals([formData EXCEPT !.discount = d, !.gst = g])
                     = calculateInvoiceTotals(formData)

\* a fully discounted invoice is saved: the gst base is 0 and the gst % is 0
C7_Witness ==
    /\ savePc = "saving"
    /\ totals(formData).subtotal > 0
    /\ totals(formData).subtotal = totals(formData).discountAmount
    /\ formData.items[1].gst = 18
    /\ saveReq.discount = Ratio(100, 1)
    /\ saveReq.gst = Zero


FormValid ==
    /\ Len(formData.items) >= 1
    /\ \A i \in 1..Len(formData.items) : formData.items[i].productId # ""
    /\ \/ formData.customerId # ""
       \/ formData.customerName # "" /\ customerDetails.phone # ""

\* C4: a submit passes an invoice to onSave only when the invoice has at
\* least one item, every item has a product, and there is a customer id or
\* both a name and a phone; otherwise it is rejected with an alert, the form
\* state is unchanged and no request is issued.  A valid submit issues
\* exactly one request.
C4_SaveOnlyWhenValid ==
    [][handleSubmit =>
          IF FormValid
          THEN /\ savePc = "idle" /\ savePc' = "saving"
               /\ saveReq = NoRequest /\ saveReq' # NoRequest
               /\ saveReq'.items = formData.items
               /\ alert' = ""
          ELSE /\ alert' # ""
               /\ UNCHANGED <<formData, customerDetails, savePc, saveReq, store>>]_vars

\* a walk-in customer's two-line invoice is on its way to the backend
C4_Witness ==
    /\ savePc = "saving"
    /\ saveReq.customerId = "" /\ saveReq.customerName = "Ravi" /\ saveReq.customerPhone = "77"
    /\ Len(saveReq.items) = 2

\* C5: every invoice item passed to onSave has quantity > 0; a line whose
\* quantity is zero or blank is rejected before submission.
C5_SavedQuantitiesPositive ==
    savePc = "saving" => \A i \in 1..Len(saveReq.items) : saveReq.items[i].quantity > 0

Unedited ==
    /\ modalMode = "edit"
    /\ formData = InitialFormData(editingInvoice)
    /\ customerDetails = InitialCustomerDetails

\* the invoice in the form was loaded from the backend's current document
\* (the reload after the last save of it succeeded)
Reloaded ==
    \E k \in 1..Len(store) :
        /\ store[k]._id = editingInvoice.id
        /\ editingInvoice.items = store[k].items
        /\ editingInvoice.subtotal = store[k].subtotal
        /\ editingInvoice.total = store[k].total

LinePrices(fd) == [i \in 1..Len(fd.items) |-> fd.items[i].price]

Contribution(ingredient, catalogue) ==
    IF \E k \in 1..Len(catalogue) : catalogue[k].id = ingredient.stockItemId
    THEN (CHOOSE c \in {catalogue[k].costPerUnit : k \in {j \in 1..Len(catalogue) :
                          catalogue[j].id = ingredient.stockItemId}} : TRUE) * ingredient.quantity
    ELSE 0
ClaimedCost(recipe, catalogue) ==
    Sigma([i \in 1..Len(recipe.ingredients) |-> Contribution(recipe.ingredients[i], catalogue)])

C10_ManufacturingCost ==
    /\ manufacturingCost = ClaimedCost(recipeFormData, stockItems)
    /\ recipeCost(selectedRecipe) = ClaimedCost(selectedRecipe, stockItems)
    /\ recipeFormData.ingredients = << >> => manufacturingCost = 0

\* after s2 left the catalogue, a recipe of s1 x 2 and s2 x 2 costs 100
C10_Witness ==
    /\ stockItems = StockWithoutS2
    /\ Len(recipeFormData.ingredients) = 2
    /\ recipeFormData.ingredients[1] = [stockItemId |-> "s1", quantity |-> 2]
    /\ recipeFormData.ingredients[2] = [stockItemId |-> "s2", quantity |-> 2]
    /\ manufacturingCost = 100 * Mil


\* C11: for the selected recipe, profit = sellingPrice - cost, and margin =
\* profit / sellingPrice * 100 when sellingPrice > 0, else 0, with no
\* division by zero.
C11_ProfitAndMargin ==
    selectedRecipe # NullRecipe =>
        LET d == recipeDetails(selectedRecipe)
            c == ClaimedCost(selectedRecipe, stockItems)
            sp == selectedRecipe.sellingPrice
        IN  /\ d.cost = c
            /\ d.profit = sp - c
            /\ d.margin.den # 0
            /\ d.margin = IF sp > 0 THEN Ratio((sp - c) * 100, sp) ELSE Zero

\* 50 x 2 and 10 x 5 sold at 200: cost 150, profit 50, margin 25%
C11_Witness ==
    /\ stockItems = StockFull
    /\ selectedRecipe # NullRecipe
    /\ selectedRecipe.ingredients = << [stockItemId |-> "s1", quantity |-> 2],
                                       [stockItemId |-> "s2", quantity |-> 5] >>
    /\ selectedRecipe.sellingPrice = 200 * Mil
    /\ recipeDetails(selectedRecipe) =
           [cost |-> 150 * Mil, profit |-> 50 * Mil, margin |-> Ratio(25, 1)]


\* to the cent, halves up (amounts >= 0 in 1/Mil rupee)
RoundCents(x) == ((x + 5) \div 10) * 10

\* C12: the recipe's cost is the sum of the ingredient lines rounded once,
\* half up, to the cent, and profit and margin are derived from that rounded
\* cost.
C12_CostRoundedAfterSum ==
    selectedRecipe # NullRecipe =>
        LET d == recipeDetails(selectedRecipe)
            c == RoundCents(ClaimedCost(selectedRecipe, stockItems))
            sp == selectedRecipe.sellingPrice
        IN  /\ d.cost = c
            /\ d.profit = sp - c
            /\ d.margin = IF sp > 0 THEN Ratio((sp - c) * 100, sp) ELSE Zero


Raised(catalogue, k, d) == [catalogue EXCEPT ![k].costPerUnit = @ + d]
Matches(ingredients, id) == \E i \in 1..Len(ingredients) : ingredients[i].stockItemId = id
NonNegative(ingredients) == \A i \in 1..Len(ingredients) : ingredients[i].quantity >= 0
MonotonicIn(ingredients) ==
    \A k \in 1..Len(stockItems), d \in {1, 10 * Mil} :
        /\ CostReduce(ingredients, Raised(stockItems, k, d)) >= CostReduce(ingredients, stockItems)
        /\ ~Matches(ingredients, stockItems[k].id) =>
               CostReduce(ingredients, Raised(stockItems, k, d)) = CostReduce(ingredients, stockItems)

C14_SavedIngredientsInCatalogue ==
    recipePc = "saving" =>
        \A i \in 1..Len(recipeReq.body.ingredients) :
            /\ findStock(stockItems, recipeReq.body.ingredients[i].stockItemId) # 0
            /\ recipeReq.body.ingredients[i].quantity > 0


\* C15: getStockStatus classifies in priority order: a quantity of zero or
\* less is Out of Stock whatever the threshold; otherwise a quantity up to the
\* threshold is Low Stock; otherwise In Stock.  Every item of the list gets
\* exactly one status, negative thresholds included, so the three counts of
\* the chart add up to the list.
StatusIs(item, s) == getStockStatus(item) = s
C15_StockStatusPriority ==
    /\ \A k \in 1..Len(stock) :
        LET q == stock[k].quantity
            t == stock[k].lowStockThreshold
        IN  /\ StatusIs(stock[k], "Out of Stock") <=> q <= 0
            /\ StatusIs(stock[k], "Low Stock") <=> (q > 0 /\ q <= t)
            /\ StatusIs(stock[k], "In Stock") <=> (q > 0 /\ q > t)
            /\ Cardinality({s \in StockStatuses : StatusIs(stock[k], s)}) = 1
    /\ \A s \in StockStatuses :
        stockStatusData[s] = Cardinality({k \in 1..Len(stock) : StatusIs(stock[k], s)})
    /\ stockStatusData["In Stock"] + stockStatusData["Low Stock"]
           + stockStatusData["Out of Stock"] = Len(stock)

\* on a fetched list: zero against a threshold of 5 is Out of Stock, a
\* quantity equal to its threshold is Low Stock
C15_Witness ==
    /\ Len(stock) = 2
    /\ stockPc = "idle"
    /\ stock[1].quantity = 0 /\ stock[1].lowStockThreshold = 5
    /\ getStockStatus(stock[1]) = "Out of Stock"
    /\ stock[2].quantity = 5 /\ stock[2].lowStockThreshold = 5
    /\ getStockStatus(stock[2]) = "Low Stock"
    /\ stockStore[2].quantity = 5
    /\ stockStatusData = [s \in StockStatuses |-> IF s = "In Stock" THEN 0 ELSE 1]


\* C16: getNextEventDate returns the stored month/day in today's year unless
\* that day is before today, and then the same month/day of the next year; an
\* event whose month/day is today's yields today; the result is never before
\* today and less than a year after it.
Today == [clock EXCEPT !.ms = 0]
StoredDates ==
    ({customers[k].birthday : k \in 1..Len(customers)}
        \cup {customers[k].anniversary : k \in 1..Len(customers)}) \ {NoDate}
C16_NextEventDate ==
    \A d \in StoredDates :
        LET thisYear == NewDate(clock.year, d.month, d.day)
            result == getNextEventDate(d, clock)
        IN  /\ result = IF DateLess(thisYear, Today)
                        THEN NewDate(clock.year + 1, d.month, d.day)
                        ELSE thisYear
            /\ (d.month = MonthOf(clock) /\ d.day = DayOf(clock)) => result = Today
            /\ ~DateLess(result, Today)
            /\ DateLess(result, [Today EXCEPT !.year = @ + 1])


\* C17: a 401 answer to a request of any view clears the stored token and
\* leaves the login view on screen, and the caller does not get the response;
\* any other answer is returned to the caller with the stored token in place.
C17_UnauthorizedClearsToken ==
    /\ lastResponse.status = 401 =>
           /\ localStorage.token = ""
           /\ href = "/login"
           /\ lastResponse.outcome = "thrown"
    /\ lastResponse.status \notin {0, 401} =>
           /\ lastResponse.outcome = "returned"
           /\ localStorage.token # ""


\* C18: when the save of an invoice fails (the request rejects or the
\* response is not ok), no further request is issued and the page stays as it
\* was: the form open with the user's edits, the invoice list unchanged.
C18_FailedSaveKeepsForm ==
    [][(savePc = "saving" /\ savePc' = "idle") =>
           /\ saveReq' = NoRequest
           /\ invoices' = invoices
           /\ isModalOpen'
           /\ formData' = formData
           /\ customerDetails' = customerDetails]_vars


\* C19: the refetch of the invoice list is issued only at the step where the
\* save request completes with an ok response, the backend holding the saved
\* invoice by then; the list the refetch puts on screen is the backend's
\* collection with that save in it; a save that fails issues no refetch and
\* leaves the list alone.
C19_RefetchAfterSave ==
    [][/\ (savePc' = "refetching" /\ savePc # "refetching") =>
              /\ savePc = "saving"
              /\ store' = StoreAfter(store, saveReq)
       /\ (savePc = "refetching" /\ invoices' # invoices) =>
              /\ store' = store
              /\ invoices' = normalizedInvoices(store)
       /\ (savePc = "saving" /\ savePc' # "refetching") =>
              /\ savePc' \in {"saving", "idle"}
              /\ invoices' = invoices]_vars

\* the save of a new invoice has completed, the backend holds it, the
\* refetch is under way and the list on screen is still the one from before
C19_Witness ==
    /\ savePc = "refetching"
    /\ Len(store) = 1
    /\ invoices = << >>
    /\ isModalOpen


\* C20: whatever the order in which the four responses arrive, a run of
\* fetchData in which all four requests succeed leaves the four collections
\* of that run on the Dashboard; loading is false only once all four are
\* answered or one has failed; and a run in which a request failed replaces
\* none of the four collections.
Failed(e) == dashResponses[e] \in {"error", "garbled", "rejected"}
C20_DashboardAllOrNothing ==
    dashRun > 0 =>
        /\ ~dashboard.loading =>
               \/ \A e \in Collections : dashResponses[e] # "pending"
               \/ \E e \in Collections : Failed(e)
        /\ (dashPc = "idle" /\ \A e \in Collections : dashResponses[e] = "ok") =>
               \A e \in Collections : dashboard[e] = [run |-> dashRun, kind |-> "data"]
        /\ (\E e \in Collections : Failed(e)) =>
               \A e \in Collections : dashboard[e].run # dashRun


\* the two inputs of the purchase form hold a quantity above zero and a cost
\* of zero or more
PurchaseEntered ==
    /\ adjustForm.quantityAdded # Blank /\ adjustForm.quantityAdded > 0
    /\ adjustForm.costPerUnit # Blank /\ adjustForm.costPerUnit >= 0

\* C21: a purchase request is sent only when the quantity entered is above
\* zero and the cost entered is zero or more, and it carries exactly the two
\* numbers entered, for the item the form was opened on; with anything else
\* in the form no request leaves; the item handed to the edit form stays as
\* it was when the form was opened, and the PUT of an edit carries that
\* item's quantity.
C21_QuantityOnlyByPurchase ==
    [][/\ (stockPc = "idle" /\ stockPc' = "adjusting") =>
              /\ PurchaseEntered
              /\ stockReq'.method = "POST" /\ stockReq'.path = "purchases"
              /\ stockReq'.id = selectedItem.id
              /\ stockReq'.purchase =
                     [quantity_added |-> adjustForm.quantityAdded,
                      cost_per_unit_of_purchase |-> adjustForm.costPerUnit]
       /\ (stockPc = "idle" /\ isAdjustModalOpen /\ ~PurchaseEntered) =>
              /\ stockPc' = "idle"
              /\ stockReq' = NoStockRequest
              /\ stockStore' = stockStore
       /\ (~isStockFormModalOpen /\ isStockFormModalOpen' /\ selectedItem'.id # "") =>
              \E k \in 1..Len(stock) : selectedItem' = stock[k]
       /\ (isStockFormModalOpen /\ isStockFormModalOpen') => selectedItem' = selectedItem
       /\ (stockPc = "idle" /\ stockPc' = "saving" /\ stockReq'.method = "PUT") =>
              /\ stockReq'.id = selectedItem.id
              /\ stockReq'.body.quantity = selectedItem.quantity
       /\ (stockPc = "idle" /\ stockPc' = "saving") => isStockFormModalOpen
      ]_vars

\* the item took a purchase of 3, and its edit, with the threshold changed
\* to 2, is on its way with the quantity of 8 the list showed
C21_Witness ==
    /\ stockPc = "saving"
    /\ stockReq.method = "PUT"
    /\ stockReq.id = "s1"
    /\ stockStore[1].quantity = 8
    /\ stockReq.body.quantity = 8
    /\ stockReq.body.lowStockThreshold = 2

\* C22: the invoice form's totals, calculateInvoiceTotals and the print
\* view agree on every item list: the subtotal and total that
\* calculateInvoiceTotals derives, and the discount and GST amounts that
\* InvoicePrint derives, from the items in the form equal the subtotal,
\* grand total, discount and GST the form shows; the subtotal and total of
\* the save request are the ones the form shows when it is sent.
C22_TotalsAgree ==
    /\ isModalOpen =>
          LET t == totals(formData)
              c == calculateInvoiceTotals(formData)
              p == InvoicePrint(formData)
          IN  /\ c.subtotal = t.subtotal
              /\ c.total = t.grandTotal
              /\ p.discountAmount = t.discountAmount
              /\ p.gstAmount = t.gstAmount
    /\ savePc = "saving" =>
          /\ saveReq.subtotal = totals(formData).subtotal
          /\ saveReq.total = totals(formData).grandTotal

\* the same agreement, for item lists whose numeric fields are all present
\* (numbers or blank)
AllFieldsPresent(fd) ==
    \A i \in 1..Len(fd.items) :
        \A f \in {"quantity", "price", "discount", "gst"} : fd.items[i][f] # Undef
TotalsAgreeWhenPresent ==
    AllFieldsPresent(formData) => C22_TotalsAgree

LineAfterDiscount(item) ==
    LET itemSubtotal == OrZero(item.quantity) * OrZero(item.price) * Scale
    IN  itemSubtotal - Pct(itemSubtotal, OrZero(item.discount))

\* C23: whatever line edits the invoice form has taken, every line's
\* discount is blank or within 0..100, its quantity, price and gst are blank
\* or not negative, and neither a line's amount after discount nor the
\* grand total is negative.
C23_LinesInRange ==
    isModalOpen =>
        /\ \A i \in 1..Len(formData.items) :
              LET item == formData.items[i]
              IN  /\ item.discount = Blank \/ (0 <= item.discount /\ item.discount <= 100)
                  /\ \A f \in {"quantity", "price", "gst"} : item[f] = Blank \/ item[f] >= 0
                  /\ LineAfterDiscount(item) >= 0
        /\ totals(formData).grandTotal >= 0

\* the part of it that the handler's own test gives: no field is negative
NoNegativeField ==
    isModalOpen =>
        \A i \in 1..Len(formData.items) :
            \A f \in {"quantity", "price", "discount", "gst"} :
                formData.items[i][f] = Blank \/ formData.items[i][f] >= 0

\* the next occurrence of a stored month/day on or after the day given
NextOccurrence(dateStr, day) ==
    LET thisYear == NewDate(day.year, dateStr.month, dateStr.day)
    IN  IF DateLess(thisYear, day)
        THEN NewDate(day.year + 1, dateStr.month, dateStr.day)
        ELSE thisYear
DueWithinWeek(c) ==
    /\ c.birthday # NoDate
    /\ ~DateLess(AddDays(Today, 7), NextOccurrence(c.birthday, Today))

\* C24: the Dashboard's upcoming-birthdays figure counts exactly the
\* customers whose birthday next falls, this year or after the turn of the
\* year, on one of the days from today to seven days from today.
C24_UpcomingBirthdays ==
    upcomingBirthdays = Len(SelectSeq(dashboardCustomers, DueWithinWeek))

\* within one calendar year, and seen at midnight, the figure is that count
SameYearWindow ==
    (clock.ms = 0 /\ AddDays(clock, 7).year = clock.year) => C24_UpcomingBirthdays

\* C25: once no list request is in flight and the request sent last was the
\* one for the filter now selected, the items and the total on screen are
\* the backend's answer to that request, in whatever order the responses of
\* the requests that overlapped came in.
C25_LatestQueryShown ==
    (/\ stockPc = "idle"
     /\ stockFetches = << >>
     /\ lastRequest = params(statusFilter)) =>
        /\ stock = mappedStock(ListAnswer(stockStore, lastRequest))
        /\ stockTotal = Len(ListAnswer(stockStore, lastRequest))

\* C26: whatever logins, logouts and 401 answers have happened, the
\* AuthProvider holds a token exactly when localStorage holds one, and
\* localStorage holds a userEmail exactly when it holds a token.
C26_AuthStateConsistent ==
    /\ (token # "") = (localStorage.token # "")
    /\ (localStorage.userEmail # "") = (localStorage.token # "")

\* a login that fails leaves the login page on screen and changes neither
\* the AuthProvider's state nor localStorage
FailedLoginChangesNothing ==
    [][(href = "/login" /\ href' = "/login")
          => UNCHANGED <<token, userEmail, localStorage>>]_vars

\* the token alone: in memory exactly when stored
TokenInStepWithStorage == (token # "") = (localStorage.token # "")

\* C27: whatever page buttons were clicked and invoices deleted, the page of
\* the Billing list is at least 1 and at most the number of pages the
\* reported total makes (1 when there is none), and every list request asks
\* for PAGE_SIZE invoices from a multiple of PAGE_SIZE.
C27_PageWithinRange ==
    /\ 1 <= page
    /\ page <= (IF totalPages > 1 THEN totalPages ELSE 1)
    /\ billingRequest # NoPageRequest =>
           /\ billingRequest.limit = PAGE_SIZE
           /\ \E p \in 1..(MaxStored + 1) : billingRequest.skip = (p - 1) * PAGE_SIZE
    /\ ListShown => billingRequest.skip = (page - 1) * PAGE_SIZE

\* the lower limit alone, and the requests
PageAtLeastOne ==
    /\ 1 <= page
    /\ billingRequest # NoPageRequest =>
           /\ billingRequest.limit = PAGE_SIZE
           /\ \E p \in 1..(MaxStored + 1) : billingRequest.skip = (p - 1) * PAGE_SIZE

\* C28: whatever lines were added and removed and products picked from the
\* options the dropdowns offer, no two lines of the form carry the same
\* product, and no line's dropdown offers a product that another line
\* carries.
C28_NoDuplicateProducts ==
    isModalOpen =>
        \A i, j \in 1..Len(formData.items) :
            (i # j /\ formData.items[j].productId # "") =>
                /\ formData.items[i].productId # formData.items[j].productId
                /\ formData.items[j].productId \notin ProductOptions(i)

\* a line that carries a product is not offered the products of the others
ChosenLineOffersNoDuplicate ==
    isModalOpen =>
        \A i, j \in 1..Len(formData.items) :
            (/\ i # j
             /\ formData.items[i].productId # ""
             /\ formData.items[j].productId # ""
             /\ formData.items[j].productId # formData.items[i].productId) =>
                formData.items[j].productId \notin ProductOptions(i)

\* C29: while the form's GST type is 'without_gst', every line's gst is 0
\* (or blank) and the GST amount is 0, whatever toggles, added lines, picked
\* products and line edits came before.
C29_WithoutGstMeansZero ==
    (isModalOpen /\ gstType = "without_gst") =>
        /\ \A i \in 1..Len(formData.items) : formData.items[i].gst \in {0, Blank}
        /\ totals(formData).gstAmount = 0

\* the switch to 'without_gst' sets every line's gst to 0, and a line added
\* or a product picked under it gets gst 0
WithoutGstZeroes ==
    [][/\ (gstType = "with_gst" /\ gstType' = "without_gst") =>
              \A i \in 1..Len(formData'.items) : formData'.items[i].gst = 0
       /\ (gstType = "without_gst" /\ gstType' = "without_gst") =>
              /\ Len(formData'.items) = Len(formData.items) + 1 =>
                     formData'.items[Len(formData'.items)].gst = 0
              /\ \A i \in 1..Len(formData.items) :
                     (/\ Len(formData'.items) = Len(formData.items)
                      /\ formData'.items[i].productId # formData.items[i].productId) =>
                         formData'.items[i].gst = 0
      ]_vars


\* ---------------------------------------------------------------------
\* The Billing list: filteredInvoices, the rows the page displays from the
\* loaded invoices under the search box and the two filter selects.
\* ---------------------------------------------------------------------
OrderTypes == {"Online", "In-Store", "Takeaway", "Delivery"}

\* the characters of the strings the list holds
DecimalDigits(n) ==
    LET digit(d) == <<"0", "1", "2", "3", "4", "5", "6", "7", "8", "9">>[d + 1]
    IN  IF n < 10 THEN <<digit(n)>> ELSE <<digit(n \div 10), digit(n % 10)>>
Chars(s) ==
    CASE s = "" -> << >>
      [] s = "Asha" -> <<"A", "s", "h", "a">>
      [] s = "Ravi" -> <<"R", "a", "v", "i">>
      [] OTHER -> LET n == CHOOSE k \in 1..13 : InvoiceIdAt(k) = s
                  IN  <<"i", "n", "v">> \o DecimalDigits(n)

\* String.prototype.toLowerCase and String.prototype.includes
LowerChar(c) ==
    CASE c = "A" -> "a" [] c = "H" -> "h" [] c = "I" -> "i" [] c = "N" -> "n"
      [] c = "R" -> "r" [] c = "S" -> "s" [] c = "V" -> "v" [] OTHER -> c
toLowerCase(str) == [i \in 1..Len(str) |-> LowerChar(str[i])]
includes(str, searchString) ==
    \E k \in 0..(Len(str) - Len(searchString)) :
        SubSeq(str, k + 1, k + Len(searchString)) = searchString

\* new Date(invoice.date).getTime(), as the moment it stands for
getTime(dateStr) == NewDate(dateStr.year, dateStr.month, dateStr.day)

matchesSelects(invoice) ==
    /\ invoiceStatusFilter = "all" \/ invoice.paymentStatus = invoiceStatusFilter
    /\ typeFilter = "all" \/ invoice.orderType = typeFilter
matchesSearch(invoice) ==
    \/ includes(toLowerCase(Chars(invoice.id)), toLowerCase(searchTerm))
    \/ includes(toLowerCase(Chars(invoice.customerName)), toLowerCase(searchTerm))

\* .sort((a, b) => new Date(b.date).getTime() - new Date(a.date).getTime());
\* the sort is stable
RECURSIVE sortByDateDescending(_)
sortByDateDescending(list) ==
    IF list = << >> THEN << >>
    ELSE LET a == Head(list)
             rest == Tail(list)
             later == SelectSeq(rest, LAMBDA b : DateLess(getTime(a.date), getTime(b.date)))
             notLater == SelectSeq(rest, LAMBDA b : ~DateLess(getTime(a.date), getTime(b.date)))
         IN  sortByDateDescending(later) \o <<a>> \o sortByDateDescending(notLater)

filteredInvoices ==
    IF Len(invoices) = 1 THEN invoices
    ELSE sortByDateDescending(
             SelectSeq(SelectSeq(invoices, matchesSelects), matchesSearch))

\* the search box and the two selects
setSearchTerm(value) ==
    /\ value # searchTerm
    /\ searchTerm' = value
    /\ UNCHANGED <<store, invoices, products, isModalOpen, modalMode, editingInvoice,
                   formData, customerDetails, gstType, alert, savePc, saveReq, pagingVars,
                   invoiceStatusFilter, typeFilter, recipeVars, otherVars>>
Billing_setStatusFilter(value) ==
    /\ value # invoiceStatusFilter
    /\ invoiceStatusFilter' = value
    /\ UNCHANGED <<store, invoices, products, isModalOpen, modalMode, editingInvoice,
                   formData, customerDetails, gstType, alert, savePc, saveReq, pagingVars,
                   searchTerm, typeFilter, recipeVars, otherVars>>
setTypeFilter(value) ==
    /\ value # typeFilter
    /\ typeFilter' = value
    /\ UNCHANGED <<store, invoices, products, isModalOpen, modalMode, editingInvoice,
                   formData, customerDetails, gstType, alert, savePc, saveReq, pagingVars,
                   searchTerm, invoiceStatusFilter, recipeVars, otherVars>>

\* SpecList: the Billing list over a backend holding two invoices, the
\* older one stored first; the second one's customer, status, order type
\* and date vary.  The user types into the search box, sets the filters and
\* deletes invoices; the list is fetched again after a delete.
SearchTerms == {<< >>, <<"A", "S">>, <<"v">>, <<"z">>}
ListedInvoices ==
    {<<[StoredInvoice(1) EXCEPT !.date = [year |-> 2026, month |-> 1, day |-> 5]],
       [StoredInvoice(2) EXCEPT !.customerName = name, !.paymentStatus = status,
                                !.orderType = type, !.date = date]>> :
        name \in {"Asha", "Ravi"}, status \in {"Pending", "Paid"},
        type \in {"Takeaway", "Delivery"},
        date \in {[year |-> 2026, month |-> 1, day |-> 5],
                  [year |-> 2026, month |-> 2, day |-> 1]}}

InitList ==
    \E listed \in ListedInvoices :
        /\ store = listed
        /\ invoices = normalizedInvoices(listed)
        /\ products = CatalogueA
        /\ isModalOpen = FALSE
        /\ modalMode = "null"
        /\ editingInvoice = NullInvoice
        /\ formData = InitialFormData(NullInvoice)
        /\ customerDetails = InitialCustomerDetails
        /\ gstType = "with_gst"
        /\ alert = ""
        /\ savePc = "idle"
        /\ saveReq = NoRequest
        /\ PagingInit
        /\ RecipeIdle
        /\ OtherIdle

NextList ==
    \/ ListShown /\ \E value \in SearchTerms : setSearchTerm(value)
    \/ ListShown /\ \E value \in {"all", "Pending", "Paid"} : Billing_setStatusFilter(value)
    \/ ListShown /\ \E value \in {"all", "Takeaway", "Delivery"} : setTypeFilter(value)
    \/ ListShown /\ \E i \in 1..Len(invoices) : handleDeleteInvoice(i)
    \/ fetchAllData(products)

SpecList == InitList /\ [][NextList]_vars

Displayed(invoice) == \E i \in 1..Len(filteredInvoices) : filteredInvoices[i] = invoice
InDateOrder(list) ==
    \A i, j \in 1..Len(list) :
        i < j => ~DateLess(getTime(list[i].date), getTime(list[j].date))

\* C30: every invoice the Billing list displays satisfies the active
\* filters (its paymentStatus is the status filter or that filter is
\* 'all', its orderType is the type filter or that filter is 'all', its id
\* or its customer name contains the search term whatever the case of the
\* letters), for a loaded list of any size, and the displayed invoices are
\* in descending order of date.
C30_DisplayedMatchFilters ==
    ListShown =>
        /\ \A i \in 1..Len(filteredInvoices) :
               /\ matchesSelects(filteredInvoices[i])
               /\ matchesSearch(filteredInvoices[i])
        /\ InDateOrder(filteredInvoices)

\* a loaded list of two or more invoices, or of none, is displayed filtered
\* and in descending order of date, and every loaded invoice that matches
\* is displayed
FilteredBeyondOne ==
    (ListShown /\ Len(invoices) # 1) =>
        /\ \A i \in 1..Len(filteredInvoices) :
               /\ matchesSelects(filteredInvoices[i])
               /\ matchesSearch(filteredInvoices[i])
        /\ InDateOrder(filteredInvoices)
        /\ \A i \in 1..Len(invoices) :
               (matchesSelects(invoices[i]) /\ matchesSearch(invoices[i]))
                   => Displayed(invoices[i])

=============================================================================
